---- MODULE Spec2Model ----
(***************************************************************************)
(* Question-answering orchestration core of ClassSight:                    *)
(*   backend/ai_assistant/sql_agent.py   (SQL agent: synthesize, sanitize, *)
(*                                        execute, compose, retry once)    *)
(*   backend/rag_service_v2.py           (RAGServiceV2.chat with fallback) *)
(*   backend/ai_assistant/langchain_based_rag/rag_service.py (legacy)      *)
(* Query texts are sequences of one-character strings, so the regular      *)
(* expressions of the sanitizer are evaluated character by character.      *)
(***************************************************************************)
EXTENDS Integers, Sequences, FiniteSets, TLC

\* ------------------------------------------------------------------------
\* Bounds of the model
\* ------------------------------------------------------------------------
\* number of fragments a candidate query text is assembled from
MaxParts == 3

\* ------------------------------------------------------------------------
\* Characters and Python string primitives
\* ------------------------------------------------------------------------
LowerLetters ==
  <<"a","b","c","d","e","f","g","h","i","j","k","l","m",
    "n","o","p","q","r","s","t","u","v","w","x","y","z">>

UpperLetters ==
  <<"A","B","C","D","E","F","G","H","I","J","K","L","M",
    "N","O","P","Q","R","S","T","U","V","W","X","Y","Z">>

Range(f) == { f[i] : i \in DOMAIN f }

LowerSet == Range(LowerLetters)

UpperSet == Range(UpperLetters)

Digits == {"0","1","2","3","4","5","6","7","8","9"}

\* str.upper() on one character
UpperMap == [ c \in LowerSet |-> UpperLetters[CHOOSE i \in 1..26 : LowerLetters[i] = c] ]

\* str.lower() on one character
LowerMap == [ c \in UpperSet |-> LowerLetters[CHOOSE i \in 1..26 : UpperLetters[i] = c] ]

Upper(c) == IF c \in LowerSet THEN UpperMap[c] ELSE c

Lower(c) == IF c \in UpperSet THEN LowerMap[c] ELSE c

UpperStr(s) == [ i \in 1..Len(s) |-> Upper(s[i]) ]

LowerStr(s) == [ i \in 1..Len(s) |-> Lower(s[i]) ]

\* whitespace as str.strip() and the regex class \s see it
IsSpace(c) == c \in {" ", "\n", "\t"}

\* the regex class \d
IsDigit(c) == c \in Digits

\* the regex class \w
IsWordChar(c) == c \in LowerSet \/ c \in UpperSet \/ c \in Digits \/ c = "_"

\* the regex assertion \b at the gap before position p (1..Len(s)+1)
WordBoundary(s, p) ==
  LET before == p > 1 /\ p - 1 <= Len(s) /\ IsWordChar(s[p-1])
      after  == p >= 1 /\ p <= Len(s) /\ IsWordChar(s[p])
  IN  before # after

\* the literal w (upper case) matches s at position i, ignoring case
MatchCI(s, i, w) ==
  /\ i >= 1
  /\ i + Len(w) - 1 <= Len(s)
  /\ \A j \in 1..Len(w) : Upper(s[i + j - 1]) = w[j]

\* the literal w matches s at position i exactly
MatchAt(s, i, w) ==
  /\ i >= 1
  /\ i + Len(w) - 1 <= Len(s)
  /\ \A j \in 1..Len(w) : s[i + j - 1] = w[j]

\* str.strip()
strip(s) ==
  LET idx == { i \in 1..Len(s) : ~IsSpace(s[i]) }
  IN  IF idx = {} THEN << >>
      ELSE LET lo == CHOOSE i \in idx : \A j \in idx : i <= j
               hi == CHOOSE i \in idx : \A j \in idx : i >= j
           IN  SubSeq(s, lo, hi)

\* s[:-2]: an off-by-one slip of the slice
ButLast_short(s) == IF Len(s) <= 1 THEN << >> ELSE SubSeq(s, 1, Len(s) - 2)

\* s[:-1]
ButLast(s) == IF Len(s) = 0 THEN << >> ELSE SubSeq(s, 1, Len(s) - 1)

\* the terminator is left in place
rstrip_semicolon_kept(s) == s

\* str.rstrip(';')
rstrip_semicolon(s) ==
  LET idx == { i \in 1..Len(s) : s[i] # ";" }
  IN  IF idx = {} THEN << >>
      ELSE SubSeq(s, 1, CHOOSE i \in idx : \A j \in idx : i >= j)

\* c in s
Contains(s, c) == \E i \in 1..Len(s) : s[i] = c

\* ------------------------------------------------------------------------
\* sanitize_sql (sql_agent.py)
\* ------------------------------------------------------------------------
K_SELECT == <<"S","E","L","E","C","T">>

K_LIMIT == <<"L","I","M","I","T">>

\* the alternatives of the pattern bad
BadKeywords ==
  << <<"I","N","S","E","R","T">>,
     <<"U","P","D","A","T","E">>,
     <<"D","E","L","E","T","E">>,
     <<"D","R","O","P">>,
     <<"T","R","U","N","C","A","T","E">>,
     <<"A","L","T","E","R">>,
     <<"C","R","E","A","T","E">>,
     <<"G","R","A","N","T">>,
     <<"R","E","V","O","K","E">>,
     <<"M","E","R","G","E">> >>

\* the text the LIMIT repair appends
LimitSuffix == <<" ","L","I","M","I","T"," ","2","0","0",";">>

ErrUnsafe == "Unsafe SQL detected. Only SELECT queries are allowed."

ErrNotSelect == "Only a single SELECT statement is allowed."

ErrMultiple == "Multiple statements detected. Provide exactly one SELECT."

\* the pattern compiled without re.IGNORECASE
bad_search_case_sensitive(sql) ==
  \E i \in 1..Len(sql) : \E k \in 1..Len(BadKeywords) :
     /\ WordBoundary(sql, i)
     /\ MatchAt(sql, i, BadKeywords[k])
     /\ WordBoundary(sql, i + Len(BadKeywords[k]))

\* bad.search(sql): \b(INSERT|...|MERGE)\b, IGNORECASE
bad_search(sql) ==
  \E i \in 1..Len(sql) : \E k \in 1..Len(BadKeywords) :
     /\ WordBoundary(sql, i)
     /\ MatchCI(sql, i, BadKeywords[k])
     /\ WordBoundary(sql, i + Len(BadKeywords[k]))

\* re.search in place of re.match, without the anchor
select_match_unanchored(sql) ==
  \E k \in 0..Len(sql) :
     /\ MatchCI(sql, k + 1, K_SELECT)
     /\ WordBoundary(sql, k + 1 + Len(K_SELECT))

\* re.match(r"^\s*SELECT\b", sql, IGNORECASE)
select_match(sql) ==
  \E k \in 0..Len(sql) :
     /\ \A j \in 1..k : IsSpace(sql[j])
     /\ MatchCI(sql, k + 1, K_SELECT)
     /\ WordBoundary(sql, k + 1 + Len(K_SELECT))

\* re.search(r"\bLIMIT\s+\d+\b", sql, IGNORECASE)
limit_search(sql) ==
  \E i \in 1..Len(sql) :
     /\ WordBoundary(sql, i)
     /\ MatchCI(sql, i, K_LIMIT)
     /\ \E a \in 1..Len(sql) : \E b \in 1..Len(sql) :
          LET ws == i + Len(K_LIMIT)
              ds == ws + a
          IN  /\ ds + b - 1 <= Len(sql)
              /\ \A j \in ws..(ds - 1) : IsSpace(sql[j])
              /\ \A j \in ds..(ds + b - 1) : IsDigit(sql[j])
              /\ WordBoundary(sql, ds + b)

Rejected(msg) == [ok |-> FALSE, text |-> << >>, err |-> msg]

Accepted(t) == [ok |-> TRUE, text |-> t, err |-> ""]

sanitize_sql(sql) ==
  IF bad_search(sql) THEN Rejected(ErrUnsafe)
  ELSE IF ~select_match(sql) THEN Rejected(ErrNotSelect)
  ELSE IF Contains(ButLast(strip(sql)), ";") THEN Rejected(ErrMultiple)
  ELSE IF ~limit_search(sql) THEN Accepted(rstrip_semicolon(sql) \o LimitSuffix)
  ELSE Accepted(sql)

\* ------------------------------------------------------------------------
\* Candidate query texts: up to MaxParts fragments, at most one of them a
\* mutating keyword (in upper, lower or capitalised spelling)
\* ------------------------------------------------------------------------
BaseFragments ==
  << K_SELECT,
     <<"s","e","l","e","c","t">>,
     <<" ">>,
     <<";">>,
     <<"x">>,
     <<" ","L","I","M","I","T"," ">>,
     <<" ","l","i","m","i","t","\n">>,
     <<"5">>,
     <<"-","-">>,
     <<"\n">> >>

Capitalised(w) == [ i \in 1..Len(w) |-> IF i = 1 THEN w[i] ELSE Lower(w[i]) ]

Spellings == {"upper", "lower", "capitalised"}

Spell(w, how) ==
  CASE how = "upper" -> w
    [] how = "lower" -> LowerStr(w)
    [] OTHER -> Capitalised(w)

RECURSIVE Flatten(_)
Flatten(parts) ==
  IF parts = << >> THEN << >> ELSE Head(parts) \o Flatten(Tail(parts))

\* the text made of base fragments base[1..n], with the keyword fragment kw
\* put in place of part number at (at = 0: no keyword)
Assemble(base, at, kw) ==
  Flatten([ i \in 1..Len(base) |-> IF i = at THEN kw ELSE BaseFragments[base[i]] ])

\* ------------------------------------------------------------------------
\* generate_select_sql: post-processing of the model reply (sql_agent.py)
\* ------------------------------------------------------------------------
\* the character U+0060 (grave accent), which a TLA+ string literal cannot hold
BackTick == "U+0060"

Fence == <<BackTick, BackTick, BackTick>>

K_SQL == <<"S","Q","L">>

\* ^ under re.MULTILINE
AtLineStart(s, i) == i = 1 \/ (i > 1 /\ i - 1 <= Len(s) /\ s[i-1] = "\n")

\* $ under re.MULTILINE
AtLineEnd(s, p) == p = Len(s) + 1 \/ (p <= Len(s) /\ s[p] = "\n")

\* re.sub of  ^FENCE(?:sql)?|FENCE$  by "", flags IGNORECASE|MULTILINE, scanning from i
RECURSIVE SubFences(_, _)
SubFences(s, i) ==
  IF i > Len(s) THEN << >>
  ELSE IF AtLineStart(s, i) /\ MatchAt(s, i, Fence)
       THEN IF MatchCI(s, i + 3, K_SQL) THEN SubFences(s, i + 6)
            ELSE SubFences(s, i + 3)
  ELSE IF MatchAt(s, i, Fence) /\ AtLineEnd(s, i + 3)
       THEN SubFences(s, i + 3)
  ELSE <<s[i]>> \o SubFences(s, i + 1)

\* lines 114-117: strip, remove code fences, strip
clean_reply(content) == strip(SubFences(strip(content), 1))

\* line 238: the retry only strips the reply
clean_retry_reply(content) == strip(content)

\* ------------------------------------------------------------------------
\* What the language model, the database and the legacy chain may answer
\* ------------------------------------------------------------------------
T_X == <<" ","x">>

T_LIMIT5 == <<" ","L","I","M","I","T"," ","5">>

\* raw replies of the SQL-writing model
AgentReplies ==
  { Flatten(<<K_SELECT, T_X, T_LIMIT5>>),
    Flatten(<<K_SELECT, T_X>>),
    Flatten(<<K_SELECT, T_X, <<";">>, <<"\n">>>>),
    Flatten(<<BadKeywords[3], T_X>>),
    Flatten(<<K_SELECT, T_X, <<";">>, K_SELECT, T_X>>),
    Flatten(<<Fence, <<"s","q","l","\n">>, K_SELECT, T_X, T_LIMIT5, <<"\n">>, Fence>>) }

\* str(e) of a failure of run_readonly_sql
ExecErrors == {"column does not exist", "statement timeout"}

ErrLLM == "model call failed"

ErrSchema == "schema introspection failed"

NoDataMsg == "No relevant data found. Please check that you entered the correct student name, bootcamp, or unit title."

ValidationMsg == "Failed to validate SQL."

\* number of rows a query may return (0 = no rows)
MaxRows == 1

\* number of questions put to answer_question
MaxCalls == 2

\* direct calls of a composer in one run
MaxTurns == 7

\* independent sessions that put questions
NumSessions == 2

\* chunks the retriever may find
MaxChunks == 1

\* database calls the caller makes in one run
MaxDbCalls == 3

\* insert_chunks calls in one run, and the longest batch
MaxIngestCalls == 2

MaxBatch == 2

\* threads that call get_schema_snapshot
NumCallers == 2

\* calls of get_schema_snapshot in one run
MaxSnapCalls == 3

\* number of concurrent chat requests to RAGServiceV2
NumReq == 2

Reqs == 1..NumReq

\* the tables the query of lines 33-40 finds, in its order
DbTables == <<"grades", "students">>

\* _SCHEMA_CACHE = None, line 19
NoSnapshot == [present |-> FALSE, parts |-> << >>]

\* lines 80-83: the part of the snapshot that describes table t, as the
\* introspection run numbered run read it
TablePart(t, run) == [table |-> t, run |-> run]

\* line 86: the parts joined into the snapshot text
JoinParts(parts) == [present |-> TRUE, parts |-> parts]

\* the snapshot of a run that read every table
FullSnapshot(run) == JoinParts([i \in 1..Len(DbTables) |-> TablePart(DbTables[i], run)])

NoOutcome == [kind |-> "none", sql |-> << >>, rows |-> 0, answer |-> "", detail |-> ""]

\* ------------------------------------------------------------------------
\* State
\* ------------------------------------------------------------------------
VARIABLES
  cand,        \* sanitizer harness: the candidate text handed to sanitize_sql
  sanPc,       \* sanitizer harness: "off", "ready" or "done"
  san,         \* sanitizer harness: the result of sanitize_sql(cand)
  pc,          \* answer_question: position of the running call
  asked,       \* answer_question: number of calls started
  question,    \* answer_question: the question of the running call
  schemaCache, \* _SCHEMA_CACHE (None or the cached snapshot)
  schema,      \* answer_question: local schema
  sql,         \* answer_question: the candidate of the current attempt (sql / reply of the retry)
  sqlSafe,     \* answer_question: sql_safe / sql2
  rows,        \* answer_question: rows / rows2 (number of rows)
  err,         \* answer_question: str(e) of the failed primary attempt
  feedback,    \* the error text written into the retry prompt
  retries,     \* number of re-syntheses with error feedback in the running call
  failedAt,    \* stage at which the primary attempt failed ("" if it did not)
  retryFailedAt, \* stage at which the retry failed ("" if it did not)
  executed,    \* run_readonly_sql calls of the running call: text passed, candidate of the attempt
  conversation_history, \* sql_agent.conversation_history
  outcome,     \* what the running call gave its caller
  cpc,         \* RAGServiceV2.chat: position of each request
  primaryErr,  \* RAGServiceV2.chat: str(e) of the failed primary path, per request
  svc,         \* RAGServiceV2.chat: local legacy_service, per request
  fallbackFailed, \* per request: the legacy path failed (unavailable, or failed inside)
  cres,        \* RAGServiceV2.chat: what each request gave its caller
  legacy_rag_service, \* RAGServiceV2.legacy_rag_service ("None" or "service")
  legacy_initialized, \* RAGServiceV2._legacy_initialized
  qa_chain,    \* RAGService.qa_chain is set
  queries,     \* the selects the latest answer_question sent, and those that failed
  response,    \* chat_endpoint_v2: the response built for each request
  entry,       \* the entry point the caller drives in this run
  calls,       \* composer calls made directly by the caller
  session,     \* the session that asked the current question
  rag_history, \* retriever.conversation_history (of the retriever module in use)
  turnOwner,   \* for each stored turn of the composer in use, the session that asked it
  prompt,      \* the turns written into the last prompt a composer built
  evidence,    \* the evidence of the last composer call: "none", "empty" or "found"
  invoked,     \* the last composer call invoked the language model
  cret,        \* what the last composer call gave its caller
  snapCalls,   \* get_schema_snapshot: number of calls started
  spc,         \* get_schema_snapshot: position of each caller
  sforce,      \* get_schema_snapshot: force_refresh of each caller's call
  srun,        \* the number of each caller's call (its introspection run)
  seen,        \* the cache as each caller's call found it at line 28
  sparts,      \* get_schema_snapshot: local snapshot_parts of each caller
  dbIO,        \* database statements each caller's call has sent
  sret,        \* what each caller's call gave its caller
  dcalls,      \* database calls started by the caller
  dfn,         \* the database function that is running ("none" between calls)
  dpc,         \* position of the running database call
  dsql,        \* run_readonly_sql: the statement passed in
  tableRows,   \* rows the statement matches when no LIMIT cuts them
  conn,        \* the connection of the running call and its transaction
  dlog,        \* statements the running call has executed on its connection, in order
  openConns,   \* psycopg2 connections that are open (closed by nobody yet)
  poolHeld,    \* connections acquired from the asyncpg pool and not released
  dret,        \* what the running database call gave its caller
  icalls,      \* insert_chunks calls started
  ipc,         \* insert_chunks: position of the running call
  ibatch,      \* insert_chunks: chunks
  itable,      \* insert_chunks: target_table
  ipos,        \* insert_chunks: i, the index of the chunk being processed
  pending,     \* rows inserted by the open transaction of the running call
  store,       \* committed rows of each allowed table
  embedded,    \* texts get_text_embedding was called with in the running call
  inserted,    \* insert_chunks: inserted
  skipped,     \* insert_chunks: skipped
  iret         \* what the running insert_chunks call gave its caller

sanVars == <<cand, sanPc, san>>

chatVars == <<cpc, primaryErr, svc, fallbackFailed, cres, legacy_rag_service,
              legacy_initialized, qa_chain, queries, response>>

agentVars == <<pc, asked, question, schemaCache, schema, sql, sqlSafe, rows, err,
               feedback, retries, failedAt, retryFailedAt, executed,
               conversation_history, outcome>>

harnessVars == <<entry, calls, session, rag_history, turnOwner, prompt, evidence,
                 invoked, cret>>

schemaVars == <<snapCalls, spc, sforce, srun, seen, sparts, dbIO, sret>>

\* the variables of answer_question other than the schema cache
agentRest == <<pc, asked, question, schema, sql, sqlSafe, rows, err, feedback,
               retries, failedAt, retryFailedAt, executed, conversation_history,
               outcome>>

connVars == <<dcalls, dfn, dpc, dsql, tableRows, conn, dlog, openConns, poolHeld,
              dret>>

ingestVars == <<icalls, ipc, ibatch, itable, ipos, pending, store, embedded, inserted,
                skipped, iret>>

ioVars == <<connVars, ingestVars>>

vars == <<sanVars, agentVars, chatVars, harnessVars, schemaVars, ioVars>>

SanOff == cand = << >> /\ sanPc = "off" /\ san = Rejected("")

AgentInit ==
  /\ pc = "idle"
  /\ asked = 0
  /\ question = 0
  /\ schemaCache = NoSnapshot
  /\ schema = NoSnapshot
  /\ sql = << >>
  /\ sqlSafe = << >>
  /\ rows = 0
  /\ err = ""
  /\ feedback = ""
  /\ retries = 0
  /\ failedAt = ""
  /\ retryFailedAt = ""
  /\ executed = << >>
  /\ conversation_history = << >>
  /\ outcome = NoOutcome

NoResult == [kind |-> "none", answer |-> "", sources |-> "none", system_used |-> "",
             fallback_reason |-> "", error |-> ""]

\* the composers a caller can call directly: llm_answer of sql_agent.py and
\* rag_answer of retriever.py and of final_rag/retriever.py
Composers == {"llm_answer", "rag_answer", "final_rag.rag_answer"}

NoReturn == [kind |-> "none", shape |-> "", answer |-> "", chunks |-> 0]

HarnessInit(e) ==
  /\ entry = e
  /\ calls = 0
  /\ session = 0
  /\ rag_history = << >>
  /\ turnOwner = << >>
  /\ prompt = << >>
  /\ evidence = "none"
  /\ invoked = FALSE
  /\ cret = NoReturn

Callers == 1..NumCallers

NoSnapReturn == [kind |-> "none", value |-> NoSnapshot, stage |-> ""]

SchemaInit ==
  /\ snapCalls = 0
  /\ spc = [c \in Callers |-> "idle"]
  /\ sforce = [c \in Callers |-> FALSE]
  /\ srun = [c \in Callers |-> 0]
  /\ seen = [c \in Callers |-> NoSnapshot]
  /\ sparts = [c \in Callers |-> << >>]
  /\ dbIO = [c \in Callers |-> 0]
  /\ sret = [c \in Callers |-> NoSnapReturn]

\* no select was sent yet
NoPlan == [target_tables |-> << >>, suggested_fields |-> << >>]

NoQueries == [req |-> 0, plan |-> NoPlan, selected |-> {}, failed |-> {},
              all_data |-> << >>]

NoResponse == [kind |-> "none", response |-> "", sources |-> "none", system_used |-> "",
               fallback_reason |-> ""]

ChatInit ==
  /\ cpc = [r \in Reqs |-> "idle"]
  /\ primaryErr = [r \in Reqs |-> ""]
  /\ svc = [r \in Reqs |-> "None"]
  /\ fallbackFailed = [r \in Reqs |-> FALSE]
  /\ cres = [r \in Reqs |-> NoResult]
  /\ legacy_rag_service = "None"
  /\ legacy_initialized = FALSE
  /\ qa_chain = FALSE
  /\ queries = NoQueries
  /\ response = [r \in Reqs |-> NoResponse]

\* the connection object of a call: not yet connected, no transaction
NoConn == [open |-> FALSE, txn |-> "none", timeout |-> FALSE, readonly |-> FALSE,
           raising |-> FALSE]

NoDbReturn == [kind |-> "none", rows |-> 0, early |-> FALSE]

ConnInit ==
  /\ dcalls = 0
  /\ dfn = "none"
  /\ dpc = "idle"
  /\ dsql = << >>
  /\ tableRows = 0
  /\ conn = NoConn
  /\ dlog = << >>
  /\ openConns = 0
  /\ poolHeld = 0
  /\ dret = NoDbReturn

ALLOWED_TABLES == {"TABLE_1", "TABLE_2"}

NoIngestReturn == [kind |-> "none", error |-> ""]

IngestInit ==
  /\ icalls = 0
  /\ ipc = "idle"
  /\ ibatch = << >>
  /\ itable = ""
  /\ ipos = 0
  /\ pending = << >>
  /\ store = [t \in ALLOWED_TABLES |-> << >>]
  /\ embedded = << >>
  /\ inserted = 0
  /\ skipped = 0
  /\ iret = NoIngestReturn

IoInit == ConnInit /\ IngestInit

\* ------------------------------------------------------------------------
\* Specification of the sanitizer alone
\* ------------------------------------------------------------------------
InitSanitize ==
  /\ \E n \in 0..MaxParts : \E base \in [1..n -> 1..Len(BaseFragments)] :
       \E at \in 0..n :
         \/ at = 0 /\ cand = Assemble(base, 0, << >>)
         \/ at > 0 /\ base[at] = 1
                    /\ \E k \in 1..Len(BadKeywords) : \E how \in Spellings :
                         cand = Assemble(base, at, Spell(BadKeywords[k], how))
  /\ sanPc = "ready"
  /\ san = Rejected("")
  /\ AgentInit
  /\ ChatInit
  /\ HarnessInit("sanitize_sql")
  /\ SchemaInit
  /\ IoInit

CallSanitize ==
  /\ sanPc = "ready"
  /\ san' = sanitize_sql(cand)
  /\ sanPc' = "done"
  /\ UNCHANGED <<cand, agentVars, chatVars, harnessVars, schemaVars, ioVars>>

NextSanitize == CallSanitize

SpecSanitize == InitSanitize /\ [][NextSanitize]_vars

\* ------------------------------------------------------------------------
\* answer_question (sql_agent.py), one action per stage
\* ------------------------------------------------------------------------
Raise(detail) == [kind |-> "raised", sql |-> << >>, rows |-> 0, answer |-> "", detail |-> detail]

\* line 206: a caller asks a question
Ask ==
  /\ entry = "answer_question"
  /\ pc = "idle"
  /\ asked < MaxCalls
  /\ asked' = asked + 1
  /\ question' = asked + 1
  /\ pc' = "schema"
  /\ schema' = NoSnapshot
  /\ sql' = << >>
  /\ sqlSafe' = << >>
  /\ rows' = 0
  /\ err' = ""
  /\ feedback' = ""
  /\ retries' = 0
  /\ failedAt' = ""
  /\ retryFailedAt' = ""
  /\ outcome' = NoOutcome
  /\ executed' = << >>
  /\ UNCHANGED <<schemaCache, conversation_history, sanVars, chatVars,
                 harnessVars, schemaVars, ioVars>>

\* line 210 and get_schema_snapshot: cache hit, or introspection (which may fail)
Snapshot ==
  /\ pc = "schema"
  /\ \/ /\ schemaCache.present
        /\ schema' = schemaCache
        /\ pc' = "synth"
        /\ UNCHANGED <<schemaCache, failedAt, outcome>>
     \/ /\ ~schemaCache.present
        /\ schemaCache' = FullSnapshot(asked)
        /\ schema' = FullSnapshot(asked)
        /\ pc' = "synth"
        /\ UNCHANGED <<failedAt, outcome>>
     \/ /\ ~schemaCache.present
        /\ failedAt' = "schema"
        /\ outcome' = Raise(ErrSchema)
        /\ pc' = "done"
        /\ UNCHANGED <<schemaCache, schema>>
  /\ UNCHANGED <<asked, question, sql, sqlSafe, rows, err, feedback, retries,
                 retryFailedAt, executed, conversation_history, sanVars, chatVars,
                 harnessVars, schemaVars, ioVars>>

\* line 213 and generate_select_sql: the model call may fail; its reply is cleaned
Synthesize ==
  /\ pc = "synth"
  /\ \/ \E reply \in AgentReplies :
          /\ sql' = clean_reply(reply)
          /\ pc' = "validate"
          /\ UNCHANGED <<failedAt, outcome>>
     \/ /\ failedAt' = "synthesize"
        /\ outcome' = Raise(ErrLLM)
        /\ pc' = "done"
        /\ UNCHANGED sql
  /\ UNCHANGED <<asked, question, schemaCache, schema, sqlSafe, rows, err, feedback,
                 retries, retryFailedAt, executed, conversation_history, sanVars, chatVars,
                 harnessVars, schemaVars, ioVars>>

\* lines 214-217: a rejected candidate ends the call with a message
Validate ==
  /\ pc = "validate"
  /\ LET r == sanitize_sql(sql)
     IN  IF r.ok
         THEN /\ sqlSafe' = r.text
              /\ pc' = "exec"
              /\ UNCHANGED <<failedAt, outcome>>
         ELSE /\ failedAt' = "validate"
              /\ outcome' = [kind |-> "text", sql |-> sql, rows |-> 0,
                             answer |-> ValidationMsg, detail |-> r.err]
              /\ pc' = "done"
              /\ UNCHANGED sqlSafe
  /\ UNCHANGED <<asked, question, schemaCache, schema, sql, rows, err, feedback,
                 retries, retryFailedAt, executed, conversation_history, sanVars, chatVars,
                 harnessVars, schemaVars, ioVars>>

\* line 221 and run_readonly_sql: rows, or a database error caught at line 227
Execute ==
  /\ pc = "exec"
  /\ executed' = Append(executed, [text |-> sqlSafe, candidate |-> sql])
  /\ \/ \E n \in 0..MaxRows :
          /\ rows' = n
          /\ pc' = "compose"
          /\ UNCHANGED <<err, failedAt>>
     \/ \E e \in ExecErrors :
          /\ err' = e
          /\ failedAt' = "execute"
          /\ pc' = "retry_synth"
          /\ UNCHANGED rows
  /\ UNCHANGED <<asked, question, schemaCache, schema, sql, sqlSafe, feedback, retries,
                 retryFailedAt, conversation_history, outcome, sanVars, chatVars,
                 harnessVars, schemaVars, ioVars>>

\* the pair is stored before the model is called, so a failed call leaves it
Compose_append_first ==
  /\ pc = "compose"
  /\ \/ /\ rows = 0
        /\ outcome' = [kind |-> "dict", sql |-> sqlSafe, rows |-> rows,
                       answer |-> NoDataMsg, detail |-> ""]
        /\ pc' = "done"
        /\ UNCHANGED <<conversation_history, err, failedAt>>
     \/ /\ rows > 0
        /\ conversation_history' = Append(conversation_history, <<question, "answer">>)
        /\ outcome' = [kind |-> "dict", sql |-> sqlSafe, rows |-> rows,
                       answer |-> "answer", detail |-> ""]
        /\ pc' = "done"
        /\ UNCHANGED <<err, failedAt>>
     \/ /\ rows > 0
        /\ err' = ErrLLM
        /\ failedAt' = "compose"
        /\ pc' = "retry_synth"
        /\ conversation_history' = Append(conversation_history, <<question, "answer">>)
        /\ UNCHANGED outcome
  /\ UNCHANGED <<asked, question, schemaCache, schema, sql, sqlSafe, rows, feedback,
                 retries, retryFailedAt, executed, sanVars, chatVars,
                 harnessVars, schemaVars, ioVars>>

\* lines 224-225 and llm_answer: fixed message on no rows, else the model call
Compose ==
  /\ pc = "compose"
  /\ \/ /\ rows = 0
        /\ outcome' = [kind |-> "dict", sql |-> sqlSafe, rows |-> rows,
                       answer |-> NoDataMsg, detail |-> ""]
        /\ pc' = "done"
        /\ UNCHANGED <<conversation_history, err, failedAt>>
     \/ /\ rows > 0
        /\ conversation_history' = Append(conversation_history, <<question, "answer">>)
        /\ outcome' = [kind |-> "dict", sql |-> sqlSafe, rows |-> rows,
                       answer |-> "answer", detail |-> ""]
        /\ pc' = "done"
        /\ UNCHANGED <<err, failedAt>>
     \/ /\ rows > 0
        /\ err' = ErrLLM
        /\ failedAt' = "compose"
        /\ pc' = "retry_synth"
        /\ UNCHANGED <<conversation_history, outcome>>
  /\ UNCHANGED <<asked, question, schemaCache, schema, sql, sqlSafe, rows, feedback,
                 retries, retryFailedAt, executed, sanVars, chatVars,
                 harnessVars, schemaVars, ioVars>>

\* lines 227-238: the retry prompt carries err; the reply is only stripped
RetrySynthesize ==
  /\ pc = "retry_synth"
  /\ retries' = retries + 1
  /\ feedback' = err
  /\ \/ \E reply \in AgentReplies :
          /\ sql' = clean_retry_reply(reply)
          /\ pc' = "retry_validate"
          /\ UNCHANGED <<retryFailedAt, outcome>>
     \/ /\ retryFailedAt' = "synthesize"
        /\ outcome' = Raise(ErrLLM)
        /\ pc' = "done"
        /\ UNCHANGED sql
  /\ UNCHANGED <<asked, question, schemaCache, schema, sqlSafe, rows, err, failedAt,
                 executed, conversation_history, sanVars, chatVars,
                 harnessVars, schemaVars, ioVars>>

\* the reply of the retry executed without sanitize_sql
RetryValidate_unchecked ==
  /\ pc = "retry_validate"
  /\ sqlSafe' = sql
  /\ pc' = "retry_exec"
  /\ UNCHANGED <<asked, question, schemaCache, schema, sql, rows, err, feedback,
                 retries, failedAt, retryFailedAt, outcome, executed,
                 conversation_history, sanVars, chatVars,
                 harnessVars, schemaVars, ioVars>>

\* line 238: sanitize_sql of the retry is not guarded, its error propagates
RetryValidate ==
  /\ pc = "retry_validate"
  /\ LET r == sanitize_sql(sql)
     IN  IF r.ok
         THEN /\ sqlSafe' = r.text
              /\ pc' = "retry_exec"
              /\ UNCHANGED <<retryFailedAt, outcome>>
         ELSE /\ retryFailedAt' = "validate"
              /\ outcome' = Raise(r.err)
              /\ pc' = "done"
              /\ UNCHANGED sqlSafe
  /\ UNCHANGED <<asked, question, schemaCache, schema, sql, rows, err, feedback,
                 retries, failedAt, executed, conversation_history, sanVars, chatVars,
                 harnessVars, schemaVars, ioVars>>

\* a failed retry caught again and retried
RetryExecute_again ==
  /\ pc = "retry_exec"
  /\ executed' = Append(executed, [text |-> sqlSafe, candidate |-> sql])
  /\ \/ \E n \in 0..MaxRows :
          /\ rows' = n
          /\ pc' = "retry_compose"
          /\ UNCHANGED err
     \/ \E e \in ExecErrors :
          /\ err' = e
          /\ pc' = "retry_synth"
          /\ UNCHANGED rows
  /\ UNCHANGED <<asked, question, schemaCache, schema, sql, sqlSafe, feedback, retries,
                 failedAt, retryFailedAt, outcome, conversation_history, sanVars,
                 chatVars, harnessVars, schemaVars, ioVars>>

\* line 239: run_readonly_sql(sql2), its error propagates
RetryExecute ==
  /\ pc = "retry_exec"
  /\ executed' = Append(executed, [text |-> sqlSafe, candidate |-> sql])
  /\ \/ \E n \in 0..MaxRows :
          /\ rows' = n
          /\ pc' = "retry_compose"
          /\ UNCHANGED <<retryFailedAt, outcome>>
     \/ \E e \in ExecErrors :
          /\ retryFailedAt' = "execute"
          /\ outcome' = Raise(e)
          /\ pc' = "done"
          /\ UNCHANGED rows
  /\ UNCHANGED <<asked, question, schemaCache, schema, sql, sqlSafe, err, feedback,
                 retries, failedAt, conversation_history, sanVars, chatVars,
                 harnessVars, schemaVars, ioVars>>

\* the retry stores a pair for the failed attempt and one for its own answer
RetryCompose_append_again ==
  /\ pc = "retry_compose"
  /\ \/ /\ rows = 0
        /\ outcome' = [kind |-> "dict", sql |-> sqlSafe, rows |-> rows,
                       answer |-> NoDataMsg, detail |-> ""]
        /\ UNCHANGED <<conversation_history, retryFailedAt>>
     \/ /\ rows > 0
        /\ conversation_history' = Append(Append(conversation_history, <<question, "answer">>),
                                        <<question, "answer">>)
        /\ outcome' = [kind |-> "dict", sql |-> sqlSafe, rows |-> rows,
                       answer |-> "answer", detail |-> ""]
        /\ UNCHANGED retryFailedAt
     \/ /\ rows > 0
        /\ retryFailedAt' = "compose"
        /\ outcome' = Raise(ErrLLM)
        /\ UNCHANGED conversation_history
  /\ pc' = "done"
  /\ UNCHANGED <<asked, question, schemaCache, schema, sql, sqlSafe, rows, err, feedback,
                 retries, failedAt, executed, sanVars, chatVars,
                 harnessVars, schemaVars, ioVars>>

\* lines 240-241: llm_answer(question, sql2, rows2), its error propagates
RetryCompose ==
  /\ pc = "retry_compose"
  /\ \/ /\ rows = 0
        /\ outcome' = [kind |-> "dict", sql |-> sqlSafe, rows |-> rows,
                       answer |-> NoDataMsg, detail |-> ""]
        /\ UNCHANGED <<conversation_history, retryFailedAt>>
     \/ /\ rows > 0
        /\ conversation_history' = Append(conversation_history, <<question, "answer">>)
        /\ outcome' = [kind |-> "dict", sql |-> sqlSafe, rows |-> rows,
                       answer |-> "answer", detail |-> ""]
        /\ UNCHANGED retryFailedAt
     \/ /\ rows > 0
        /\ retryFailedAt' = "compose"
        /\ outcome' = Raise(ErrLLM)
        /\ UNCHANGED conversation_history
  /\ pc' = "done"
  /\ UNCHANGED <<asked, question, schemaCache, schema, sql, sqlSafe, rows, err, feedback,
                 retries, failedAt, executed, sanVars, chatVars,
                 harnessVars, schemaVars, ioVars>>

\* the call is over: the caller holds the outcome
Return ==
  /\ pc = "done"
  /\ pc' = "idle"
  /\ UNCHANGED <<asked, question, schemaCache, schema, sql, sqlSafe, rows, err, feedback,
                 retries, failedAt, retryFailedAt, executed, conversation_history,
                 outcome, sanVars, chatVars,
                 harnessVars, schemaVars, ioVars>>

InitAgent == SanOff /\ AgentInit /\ ChatInit /\ HarnessInit("answer_question") /\ SchemaInit /\ IoInit

NextAgent ==
  \/ Ask
  \/ Snapshot
  \/ Synthesize
  \/ Validate
  \/ Execute
  \/ Compose
  \/ RetrySynthesize
  \/ RetryValidate
  \/ RetryExecute
  \/ RetryCompose
  \/ Return

SpecAgent == InitAgent /\ [][NextAgent]_vars

\* ------------------------------------------------------------------------
\* RAGServiceV2.chat (rag_service_v2.py) and the legacy RAGService.chat
\* ------------------------------------------------------------------------
Apology == "I'm sorry, I'm experiencing technical difficulties and cannot process your request right now. Please try again later."

LegacyApology == "I'm sorry, I encountered an error while processing your request. Please try again."

LegacyTrouble == "I'm having trouble accessing the knowledge base. Please try rephrasing your question."

ErrLegacyUnavailable == "Legacy RAG service not available"

\* str(e) of what RAGServiceV2.answer_question re-raises: fetch_live_schema,
\* generate_query_plan, generate_final_answer
PrimaryErrors == {"schema fetch failed", "query plan failed", "final answer failed"}

\* what RAGService.chat returns: an answer of the chain, the fallback
\* response of _get_ai_response, or the apology of its except clause
LegacyResult(how) ==
  CASE how = "answer"  -> [answer |-> "legacy answer", sources |-> "documents"]
    [] how = "trouble" -> [answer |-> LegacyTrouble, sources |-> "empty"]
    [] OTHER           -> [answer |-> LegacyApology, sources |-> "empty"]

\* line 261: a request arrives
ChatStart(r) ==
  /\ cpc[r] = "idle"
  /\ cpc' = [cpc EXCEPT ![r] = "primary"]
  /\ UNCHANGED <<primaryErr, svc, fallbackFailed, cres, legacy_rag_service,
                 legacy_initialized, qa_chain, queries, response, sanVars, agentVars,
                 harnessVars, schemaVars, ioVars>>

\* line 49: the tables the service may query
included_tables == {"students", "bootcamps", "units", "assessments", "grades", "attendance"}

F_NAME == <<"n","a","m","e">>

F_SCORE == <<"s","c","o","r","e">>

F_CLASS == <<"c","l","a","s","s">>

F_COUNT == <<"C","O","U","N","T","(","*",")">>

F_PASSWORD == <<"p","a","s","s","w","o","r","d">>

\* what fetch_live_schema returns (lines 70-93): the columns of the allowed
\* tables the database has
LiveSchema ==
  [t \in included_tables |->
     CASE t = "students" -> {F_NAME, F_CLASS}
       [] t = "grades"   -> {F_SCORE}
       [] OTHER          -> {}]

\* schema.get(table, []), line 151
valid_columns(table, sch) == IF table \in DOMAIN sch THEN sch[table] ELSE {}

\* the literal "AS" occurs in f.upper(), line 156
HasAS(f) == \E i \in 1..Len(f) : MatchAt(UpperStr(f), i, <<"A","S">>)

\* every requested plain field is kept, declared by the schema or not
clean_fields_any_column(table, fields, sch) ==
  SelectSeq(fields, LAMBDA f : ~Contains(f, "(") /\ ~HasAS(f))

\* lines 154-157: the fields kept for the select
clean_fields(table, fields, sch) ==
  SelectSeq(fields, LAMBDA f : /\ f \in valid_columns(table, sch)
                               /\ ~Contains(f, "(")
                               /\ ~HasAS(f))

\* query plans the model may return (generate_query_plan, lines 102-146)
Plans ==
  { [target_tables |-> <<"students">>, suggested_fields |-> <<F_NAME, F_CLASS>>],
    [target_tables |-> <<"students", "grades">>, suggested_fields |-> <<F_NAME, F_SCORE>>],
    [target_tables |-> <<"users", "grades">>, suggested_fields |-> <<F_PASSWORD, F_COUNT>>] }

\* lines 245-248: the planned tables that pass the check of line 247 and for
\* which run_dynamic_query sends a select (line 163), with the selected fields
Selects(plan, sch) ==
  { <<plan.target_tables[i], clean_fields(plan.target_tables[i], plan.suggested_fields, sch)>> :
      i \in { j \in 1..Len(plan.target_tables) :
                /\ plan.target_tables[j] \in included_tables
                /\ clean_fields(plan.target_tables[j], plan.suggested_fields, sch) # << >> } }

\* lines 244-248: all_data has an entry for every planned table that passes
\* the check of line 247: result.data of its select, or [] when no select
\* was sent or the select failed
AllData(plan, sch, down) ==
  [t \in { plan.target_tables[i] : i \in 1..Len(plan.target_tables) } \cap included_tables |->
     IF clean_fields(t, plan.suggested_fields, sch) # << >> /\ t \notin down
       THEN "result.data"
       ELSE "[]"]

\* lines 268-281: await self.answer_question(message) (lines 232-259); it
\* returns or re-raises.  run_dynamic_query (lines 148-171) turns the error
\* of a select into an empty row list, so the selects in down fail unseen.
PrimaryAnswer(r) ==
  /\ cpc[r] = "primary"
  /\ \/ \E plan \in Plans : \E down \in SUBSET { q[1] : q \in Selects(plan, LiveSchema) } :
          /\ queries' = [req |-> r, plan |-> plan,
                          selected |-> Selects(plan, LiveSchema), failed |-> down,
                          all_data |-> AllData(plan, LiveSchema, down)]
          /\ \/ /\ cres' = [cres EXCEPT ![r] =
                              [kind |-> "returned", answer |-> "v2 answer",
                               sources |-> "v2", system_used |-> "v2",
                               fallback_reason |-> "", error |-> ""]]
                /\ cpc' = [cpc EXCEPT ![r] = "done"]
                /\ UNCHANGED primaryErr
             \/ /\ primaryErr' = [primaryErr EXCEPT ![r] = "final answer failed"]
                /\ cpc' = [cpc EXCEPT ![r] = "get_legacy"]
                /\ UNCHANGED cres
     \/ \E e \in PrimaryErrors \ {"final answer failed"} :
          /\ primaryErr' = [primaryErr EXCEPT ![r] = e]
          /\ cpc' = [cpc EXCEPT ![r] = "get_legacy"]
          /\ UNCHANGED <<cres, queries>>
  /\ UNCHANGED <<svc, fallbackFailed, legacy_rag_service, legacy_initialized, qa_chain,
                 response, sanVars, agentVars,
                 harnessVars, schemaVars, ioVars>>

\* _get_legacy_service, lines 57-62, up to the await of initialize_vector_store
GetLegacy(r) ==
  /\ cpc[r] = "get_legacy"
  /\ \/ /\ legacy_initialized
        /\ svc' = [svc EXCEPT ![r] = legacy_rag_service]
        /\ cpc' = [cpc EXCEPT ![r] = "fallback"]
        /\ UNCHANGED legacy_rag_service
     \/ /\ ~legacy_initialized
        /\ legacy_rag_service' = "service"
        /\ cpc' = [cpc EXCEPT ![r] = "legacy_init"]
        /\ UNCHANGED svc
     \/ /\ ~legacy_initialized
        /\ legacy_rag_service' = "None"
        /\ svc' = [svc EXCEPT ![r] = "None"]
        /\ cpc' = [cpc EXCEPT ![r] = "fallback"]
  /\ UNCHANGED <<primaryErr, fallbackFailed, cres, legacy_initialized, qa_chain,
                 queries, response, sanVars, agentVars,
                 harnessVars, schemaVars, ioVars>>

\* _get_legacy_service, lines 62-68: initialize_vector_store returned or raised
LegacyInitDone(r) ==
  /\ cpc[r] = "legacy_init"
  /\ \/ /\ legacy_initialized' = TRUE
        /\ \E built \in BOOLEAN : qa_chain' = (qa_chain \/ built)
        /\ svc' = [svc EXCEPT ![r] = legacy_rag_service]
        /\ UNCHANGED legacy_rag_service
     \/ /\ legacy_rag_service' = "None"
        /\ svc' = [svc EXCEPT ![r] = "None"]
        /\ UNCHANGED <<legacy_initialized, qa_chain>>
  /\ cpc' = [cpc EXCEPT ![r] = "fallback"]
  /\ UNCHANGED <<primaryErr, fallbackFailed, cres, queries, response, sanVars,
                 agentVars, harnessVars, schemaVars, ioVars>>

\* lines 286-303: the legacy chat (which never raises) or the terminal apology
Fallback(r) ==
  /\ cpc[r] = "fallback"
  /\ \/ /\ svc[r] # "None"
        /\ \E how \in {"answer", "trouble", "apology"} : \E built \in BOOLEAN :
             \* RAGService.chat, lines 175-207
             /\ how = "answer" => (qa_chain \/ built)
             /\ qa_chain' = (qa_chain \/ built)
             /\ cres' = [cres EXCEPT ![r] =
                           [kind |-> "returned", answer |-> LegacyResult(how).answer,
                            sources |-> LegacyResult(how).sources,
                            system_used |-> "legacy",
                            fallback_reason |-> primaryErr[r], error |-> ""]]
             /\ fallbackFailed' = [fallbackFailed EXCEPT ![r] = (how # "answer")]
     \/ /\ svc[r] = "None"
        /\ cres' = [cres EXCEPT ![r] =
                      [kind |-> "returned", answer |-> Apology, sources |-> "empty",
                       system_used |-> "error", fallback_reason |-> "",
                       error |-> ErrLegacyUnavailable]]
        /\ fallbackFailed' = [fallbackFailed EXCEPT ![r] = TRUE]
        /\ UNCHANGED qa_chain
  /\ cpc' = [cpc EXCEPT ![r] = "done"]
  /\ UNCHANGED <<primaryErr, svc, legacy_rag_service, legacy_initialized,
                 queries, response, sanVars, agentVars,
                 harnessVars, schemaVars, ioVars>>

\* dict.get(key, default): the value of a key the result has, else the default
get(value, default) == IF value = "" THEN default ELSE value

\* main.py lines 428-435: the response built from the result of chat
Endpoint(r) ==
  /\ cpc[r] = "done"
  /\ response' = [response EXCEPT ![r] =
                    [kind |-> "response", response |-> cres[r].answer,
                     sources |-> cres[r].sources,
                     system_used |-> get(cres[r].system_used, "v2"),
                     fallback_reason |-> get(cres[r].fallback_reason, "None")]]
  /\ cpc' = [cpc EXCEPT ![r] = "responded"]
  /\ UNCHANGED <<primaryErr, svc, fallbackFailed, cres, legacy_rag_service,
                 legacy_initialized, qa_chain, queries, sanVars, agentVars,
                 harnessVars, schemaVars, ioVars>>

InitChat == SanOff /\ AgentInit /\ ChatInit /\ HarnessInit("chat") /\ SchemaInit /\ IoInit

NextChat ==
  \E r \in Reqs :
     \/ ChatStart(r)
     \/ PrimaryAnswer(r)
     \/ GetLegacy(r)
     \/ LegacyInitDone(r)
     \/ Fallback(r)
     \/ Endpoint(r)

SpecChat == InitChat /\ [][NextChat]_vars

\* ------------------------------------------------------------------------
\* The composers called directly: llm_answer (sql_agent.py) and rag_answer
\* (retriever.py, final_rag/retriever.py), each with the conversation
\* history of its module
\* ------------------------------------------------------------------------
Sessions == 1..NumSessions

\* the number of turns of the history a prompt takes
HistoryWindow == 5

NoInfoMsg == "No relevant information was found in the knowledge base."

\* the oldest turns instead of the most recent ones
recent_turns_oldest(h) == SubSeq(h, 1, IF Len(h) > HistoryWindow THEN HistoryWindow ELSE Len(h))

\* conversation_history[-5:]
recent_turns(h) == SubSeq(h, IF Len(h) > HistoryWindow THEN Len(h) - HistoryWindow + 1 ELSE 1, Len(h))

Returned(shape, answer, chunks) ==
  [kind |-> "returned", shape |-> shape, answer |-> answer, chunks |-> chunks]

\* an exception of the retrieval or of the model call reaches the caller
Raised == [kind |-> "raised", shape |-> "", answer |-> "", chunks |-> 0]

\* session s puts the next question
NewCall(s) ==
  /\ calls < MaxTurns
  /\ calls' = calls + 1
  /\ question' = calls + 1
  /\ session' = s

\* sql_agent.llm_answer(question, sql, rows), lines 168-200, with n rows
LlmAnswer ==
  /\ entry = "llm_answer"
  /\ \E s \in Sessions : \E n \in 0..MaxRows :
       /\ NewCall(s)
       /\ evidence' = IF n = 0 THEN "empty" ELSE "found"
       /\ \/ /\ n = 0
             /\ cret' = Returned("str", NoDataMsg, 0)
             /\ invoked' = FALSE
             /\ prompt' = << >>
             /\ UNCHANGED <<conversation_history, turnOwner>>
          \/ /\ n > 0
             /\ prompt' = recent_turns(conversation_history)
             /\ invoked' = TRUE
             /\ \/ /\ conversation_history' =
                        Append(conversation_history, <<calls + 1, "answer">>)
                   /\ turnOwner' = Append(turnOwner, s)
                   /\ cret' = Returned("str", "answer", 0)
                \/ /\ cret' = Raised
                   /\ UNCHANGED <<conversation_history, turnOwner>>
  /\ UNCHANGED <<pc, asked, schemaCache, schema, sql, sqlSafe, rows, err, feedback,
                 retries, failedAt, retryFailedAt, executed, outcome, rag_history,
                 entry, sanVars, chatVars, schemaVars, ioVars>>

\* what rag_answer returns when no chunk was found: retriever.py line 82
\* returns a 3-tuple, final_rag/retriever.py line 82 a dict
empty_result(e) ==
  IF e = "rag_answer" THEN Returned("tuple", NoInfoMsg, 0)
                      ELSE Returned("dict", NoInfoMsg, 0)

\* rag_answer(query_text), lines 76-86 of retriever.py and of
\* final_rag/retriever.py, with n chunks retrieved
RagAnswer ==
  /\ entry \in {"rag_answer", "final_rag.rag_answer"}
  /\ \E s \in Sessions :
       /\ NewCall(s)
       /\ \/ \* get_top_k_chunks raises (embedding call or database)
             /\ cret' = Raised
             /\ evidence' = "none"
             /\ invoked' = FALSE
             /\ prompt' = << >>
             /\ UNCHANGED <<rag_history, turnOwner>>
          \/ \E n \in 0..MaxChunks :
               \/ /\ n = 0
                  /\ evidence' = "empty"
                  /\ cret' = empty_result(entry)
                  /\ invoked' = FALSE
                  /\ prompt' = << >>
                  /\ UNCHANGED <<rag_history, turnOwner>>
               \/ /\ n > 0
                  /\ evidence' = "found"
                  /\ prompt' = recent_turns(rag_history)
                  /\ invoked' = TRUE
                  /\ \/ /\ rag_history' = Append(rag_history, <<calls + 1, "answer">>)
                        /\ turnOwner' = Append(turnOwner, s)
                        /\ cret' = Returned("dict", "answer", n)
                     \/ /\ cret' = Raised
                        /\ UNCHANGED <<rag_history, turnOwner>>
  /\ UNCHANGED <<pc, asked, schemaCache, schema, sql, sqlSafe, rows, err, feedback,
                 retries, failedAt, retryFailedAt, executed, outcome,
                 conversation_history, entry, sanVars, chatVars, schemaVars,
                 ioVars>>

InitCompose ==
  /\ SanOff
  /\ AgentInit
  /\ ChatInit
  /\ \E e \in Composers : HarnessInit(e)
  /\ SchemaInit
  /\ IoInit

NextCompose ==
  \/ LlmAnswer
  \/ RagAnswer

SpecCompose == InitCompose /\ [][NextCompose]_vars

\* every entry point that touches a conversation history: answer_question
\* and the composers
InitMemory ==
  /\ SanOff
  /\ AgentInit
  /\ ChatInit
  /\ \E e \in Composers \cup {"answer_question"} : HarnessInit(e)
  /\ SchemaInit
  /\ IoInit

NextMemory ==
  \/ NextAgent
  \/ NextCompose

SpecMemory == InitMemory /\ [][NextMemory]_vars

\* ------------------------------------------------------------------------
\* get_schema_snapshot (sql_agent.py lines 19-87), called by several threads
\* ------------------------------------------------------------------------
SnapReturned(v) == [kind |-> "returned", value |-> v, stage |-> ""]

\* an exception of the introspection reaches the caller
SnapRaised(stage) == [kind |-> "raised", value |-> NoSnapshot, stage |-> stage]

\* the check of line 28 is skipped: every call introspects
SnapCall_ignoring_cache(c) ==
  /\ spc[c] = "idle"
  /\ snapCalls < MaxSnapCalls
  /\ \E force \in BOOLEAN :
       /\ sforce' = [sforce EXCEPT ![c] = force]
       /\ spc' = [spc EXCEPT ![c] = "tables"]
  /\ snapCalls' = snapCalls + 1
  /\ srun' = [srun EXCEPT ![c] = snapCalls + 1]
  /\ seen' = [seen EXCEPT ![c] = schemaCache]
  /\ sparts' = [sparts EXCEPT ![c] = << >>]
  /\ dbIO' = [dbIO EXCEPT ![c] = 0]
  /\ sret' = [sret EXCEPT ![c] = NoSnapReturn]
  /\ UNCHANGED <<schemaCache, agentRest, sanVars, chatVars, harnessVars, ioVars>>

\* lines 21-28: a call, and its check of the cache
SnapCall(c) ==
  /\ spc[c] = "idle"
  /\ snapCalls < MaxSnapCalls
  /\ \E force \in BOOLEAN :
       /\ sforce' = [sforce EXCEPT ![c] = force]
       /\ spc' = [spc EXCEPT ![c] =
                    IF schemaCache.present /\ ~force THEN "hit" ELSE "tables"]
  /\ snapCalls' = snapCalls + 1
  /\ srun' = [srun EXCEPT ![c] = snapCalls + 1]
  /\ seen' = [seen EXCEPT ![c] = schemaCache]
  /\ sparts' = [sparts EXCEPT ![c] = << >>]
  /\ dbIO' = [dbIO EXCEPT ![c] = 0]
  /\ sret' = [sret EXCEPT ![c] = NoSnapReturn]
  /\ UNCHANGED <<schemaCache, agentRest, sanVars, chatVars, harnessVars, ioVars>>

\* line 29: return _SCHEMA_CACHE
ReturnCached(c) ==
  /\ spc[c] = "hit"
  /\ sret' = [sret EXCEPT ![c] = SnapReturned(schemaCache)]
  /\ spc' = [spc EXCEPT ![c] = "done"]
  /\ UNCHANGED <<snapCalls, sforce, srun, seen, sparts, dbIO, schemaCache, agentRest,
                 sanVars, chatVars, harnessVars, ioVars>>

\* the statements sent for a table up to and including the one of a stage
StatementsUpTo(stage) ==
  CASE stage = "columns" -> 1
    [] stage = "fks"     -> 2
    [] OTHER             -> 3

\* lines 44-84: snapshot_parts after the first n tables were read by a run
PartsOf(n, run) == [i \in 1..n |-> TablePart(DbTables[i], run)]

\* the parts read so far are written to the cache when a statement fails
Introspect_caching_parts(c) ==
  /\ spc[c] = "tables"
  /\ \/ /\ sparts' = [sparts EXCEPT ![c] = PartsOf(Len(DbTables), srun[c])]
        /\ dbIO' = [dbIO EXCEPT ![c] = 1 + 3 * Len(DbTables)]
        /\ spc' = [spc EXCEPT ![c] = "store"]
        /\ UNCHANGED <<sret, schemaCache>>
     \/ \E i \in 1..Len(DbTables) : \E stage \in {"columns", "fks", "samples"} :
          /\ sparts' = [sparts EXCEPT ![c] = PartsOf(i - 1, srun[c])]
          /\ schemaCache' = JoinParts(PartsOf(i - 1, srun[c]))
          /\ dbIO' = [dbIO EXCEPT ![c] = 1 + 3 * (i - 1) + StatementsUpTo(stage)]
          /\ sret' = [sret EXCEPT ![c] = SnapRaised(stage)]
          /\ spc' = [spc EXCEPT ![c] = "done"]
  /\ UNCHANGED <<snapCalls, sforce, srun, seen, agentRest, sanVars, chatVars,
                 harnessVars, ioVars>>

\* lines 31-84: connect, list the tables, then read the columns, foreign
\* keys and sample rows of each table; the connection and each statement
\* may raise, and the exception leaves the function
Introspect(c) ==
  /\ spc[c] = "tables"
  /\ \/ /\ sparts' = [sparts EXCEPT ![c] = PartsOf(Len(DbTables), srun[c])]
        /\ dbIO' = [dbIO EXCEPT ![c] = 1 + 3 * Len(DbTables)]
        /\ spc' = [spc EXCEPT ![c] = "store"]
        /\ UNCHANGED sret
     \/ /\ sret' = [sret EXCEPT ![c] = SnapRaised("connect")]
        /\ spc' = [spc EXCEPT ![c] = "done"]
        /\ UNCHANGED <<sparts, dbIO>>
     \/ /\ sret' = [sret EXCEPT ![c] = SnapRaised("tables")]
        /\ dbIO' = [dbIO EXCEPT ![c] = 1]
        /\ spc' = [spc EXCEPT ![c] = "done"]
        /\ UNCHANGED sparts
     \/ \E i \in 1..Len(DbTables) : \E stage \in {"columns", "fks", "samples"} :
          /\ sparts' = [sparts EXCEPT ![c] = PartsOf(i - 1, srun[c])]
          /\ dbIO' = [dbIO EXCEPT ![c] = 1 + 3 * (i - 1) + StatementsUpTo(stage)]
          /\ sret' = [sret EXCEPT ![c] = SnapRaised(stage)]
          /\ spc' = [spc EXCEPT ![c] = "done"]
  /\ UNCHANGED <<snapCalls, sforce, srun, seen, schemaCache, agentRest, sanVars,
                 chatVars, harnessVars, ioVars>>

\* line 86: _SCHEMA_CACHE = the joined parts
Store_part_by_part(c) ==
  /\ spc[c] = "store"
  /\ LET have == Len(schemaCache.parts)
         next == IF have < Len(sparts[c])
                   THEN Append(schemaCache.parts, sparts[c][have + 1])
                   ELSE sparts[c]
     IN /\ schemaCache' = JoinParts(next)
        /\ spc' = [spc EXCEPT ![c] = IF Len(next) = Len(sparts[c]) /\ have # 0
                                        THEN "stored" ELSE "store"]
  /\ UNCHANGED <<snapCalls, sforce, srun, seen, sparts, dbIO, sret, agentRest,
                 sanVars, chatVars, harnessVars, ioVars>>

Store(c) ==
  /\ spc[c] = "store"
  /\ schemaCache' = JoinParts(sparts[c])
  /\ spc' = [spc EXCEPT ![c] = "stored"]
  /\ UNCHANGED <<snapCalls, sforce, srun, seen, sparts, dbIO, sret, agentRest,
                 sanVars, chatVars, harnessVars, ioVars>>

\* line 87: return _SCHEMA_CACHE
ReturnStored(c) ==
  /\ spc[c] = "stored"
  /\ sret' = [sret EXCEPT ![c] = SnapReturned(schemaCache)]
  /\ spc' = [spc EXCEPT ![c] = "done"]
  /\ UNCHANGED <<snapCalls, sforce, srun, seen, sparts, dbIO, schemaCache, agentRest,
                 sanVars, chatVars, harnessVars, ioVars>>

\* the call is over: its caller has the result, its locals are gone
SnapDone(c) ==
  /\ spc[c] = "done"
  /\ spc' = [spc EXCEPT ![c] = "idle"]
  /\ sforce' = [sforce EXCEPT ![c] = FALSE]
  /\ srun' = [srun EXCEPT ![c] = 0]
  /\ seen' = [seen EXCEPT ![c] = NoSnapshot]
  /\ sparts' = [sparts EXCEPT ![c] = << >>]
  /\ dbIO' = [dbIO EXCEPT ![c] = 0]
  /\ sret' = [sret EXCEPT ![c] = NoSnapReturn]
  /\ UNCHANGED <<snapCalls, schemaCache, agentRest, sanVars, chatVars, harnessVars, ioVars>>

InitSchema == SanOff /\ AgentInit /\ ChatInit /\ HarnessInit("get_schema_snapshot") /\ SchemaInit /\ IoInit

NextSchema ==
  \E c \in Callers :
     \/ SnapCall(c)
     \/ ReturnCached(c)
     \/ Introspect(c)
     \/ Store(c)
     \/ ReturnStored(c)
     \/ SnapDone(c)

SpecSchema == InitSchema /\ [][NextSchema]_vars

\* ------------------------------------------------------------------------
\* Database access: run_readonly_sql and get_schema_snapshot (sql_agent.py),
\* RAGServiceV2.fetch_live_schema, Database.execute_query.
\* A psycopg2 connection used as a context manager ends its transaction on
\* exit (commit, or rollback when an exception leaves the block) and stays
\* open; it is closed by close() or when the object is finalized.
\* ------------------------------------------------------------------------
\* the cap sanitize_sql appends when the statement has none
DefaultLimit == 200

T_LIMIT100000 == <<" ","L","I","M","I","T"," ","1","0","0","0","0","0">>

\* candidates whose validated form is passed to run_readonly_sql
DbCandidates ==
  { Flatten(<<K_SELECT, T_X>>),
    Flatten(<<K_SELECT, T_X, T_LIMIT5>>),
    Flatten(<<K_SELECT, T_X, T_LIMIT100000>>) }

ValidatedStatements == { sanitize_sql(q).text : q \in DbCandidates }

\* rows the statement matches in the database when no LIMIT cuts them
TableSizes == {0, 2, DefaultLimit + 50}

DigitSeq == <<"0","1","2","3","4","5","6","7","8","9">>

DigitVal(c) == (CHOOSE k \in 1..10 : DigitSeq[k] = c) - 1

RECURSIVE number_at(_, _, _)
number_at(s, i, acc) ==
  IF i <= Len(s) /\ IsDigit(s[i])
    THEN number_at(s, i + 1, acc * 10 + DigitVal(s[i]))
    ELSE acc

RECURSIVE skip_spaces(_, _)
skip_spaces(s, i) == IF i <= Len(s) /\ IsSpace(s[i]) THEN skip_spaces(s, i + 1) ELSE i

\* the row count of the statement's LIMIT clause, as the database reads it
limit_of(s) ==
  LET i == CHOOSE k \in 1..Len(s) : WordBoundary(s, k) /\ MatchCI(s, k, K_LIMIT)
  IN  number_at(s, skip_spaces(s, i + Len(K_LIMIT)), 0)

\* cur.fetchall() of a statement: the matching rows, cut by its LIMIT
fetchall(s, n) == IF n <= limit_of(s) THEN n ELSE limit_of(s)

PsycopgFns == {"run_readonly_sql", "get_schema_snapshot", "fetch_live_schema"}

\* the functions that hold their connection in a with block
WithFns == {"run_readonly_sql", "get_schema_snapshot"}

DbFns == PsycopgFns \cup {"execute_query"}

SetTimeoutStmt == "SET LOCAL statement_timeout = 5000;"

StartReadOnlyStmt == "START TRANSACTION READ ONLY;"

CommitStmt == "COMMIT;"

\* the caller calls one of the database functions
DbCall(fn) ==
  /\ dfn = "none"
  /\ dcalls < MaxDbCalls
  /\ dcalls' = dcalls + 1
  /\ dfn' = fn
  /\ dpc' = "connect"
  /\ IF fn = "run_readonly_sql"
       THEN \E q \in ValidatedStatements : \E n \in TableSizes :
               dsql' = q /\ tableRows' = n
       ELSE dsql' = << >> /\ tableRows' = 0
  /\ conn' = NoConn
  /\ dlog' = << >>
  /\ dret' = NoDbReturn
  /\ UNCHANGED <<openConns, poolHeld, ingestVars, sanVars, agentVars, chatVars,
                 harnessVars, schemaVars>>

\* psycopg2.connect (sql_agent.py lines 31 and 148, rag_service_v2.py line 73)
Connect ==
  /\ dfn \in PsycopgFns
  /\ dpc = "connect"
  /\ \/ /\ conn' = [conn EXCEPT !.open = TRUE]
        /\ openConns' = openConns + 1
        /\ dpc' = CASE dfn = "run_readonly_sql" -> "set_timeout"
                    [] dfn = "get_schema_snapshot" -> "statements"
                    [] OTHER -> "query"
        /\ UNCHANGED dret
     \/ /\ dret' = [kind |-> "raised", rows |-> 0, early |-> FALSE]
        /\ dpc' = "done"
        /\ UNCHANGED <<conn, openConns>>
  /\ UNCHANGED <<dcalls, dfn, dsql, tableRows, dlog, poolHeld, ingestVars, sanVars,
                 agentVars, chatVars, harnessVars, schemaVars>>

\* line 151; the first statement of a connection opens its transaction
SetTimeout ==
  /\ dfn = "run_readonly_sql"
  /\ dpc = "set_timeout"
  /\ dlog' = Append(dlog, SetTimeoutStmt)
  /\ \/ /\ conn' = [conn EXCEPT !.txn = "open", !.timeout = TRUE]
        /\ dpc' = "start_ro"
     \/ /\ conn' = [conn EXCEPT !.txn = "open", !.raising = TRUE]
        /\ dpc' = "exit"
  /\ UNCHANGED <<dcalls, dfn, dsql, tableRows, openConns, poolHeld, dret, ingestVars,
                 sanVars, agentVars, chatVars, harnessVars, schemaVars>>

\* line 152
StartReadOnly ==
  /\ dfn = "run_readonly_sql"
  /\ dpc = "start_ro"
  /\ dlog' = Append(dlog, StartReadOnlyStmt)
  /\ \/ /\ conn' = [conn EXCEPT !.readonly = TRUE]
        /\ dpc' = "execute"
     \/ /\ conn' = [conn EXCEPT !.raising = TRUE]
        /\ dpc' = "exit"
  /\ UNCHANGED <<dcalls, dfn, dsql, tableRows, openConns, poolHeld, dret, ingestVars,
                 sanVars, agentVars, chatVars, harnessVars, schemaVars>>

\* the early return leaves the function without passing the end of the with block
ExecuteSql_returning_directly ==
  /\ dfn = "run_readonly_sql"
  /\ dpc = "execute"
  /\ dlog' = Append(dlog, "sql")
  /\ \/ /\ dpc' = "fetch"
        /\ UNCHANGED <<conn, dret>>
     \/ /\ dret' = [kind |-> "returned", rows |-> 0, early |-> TRUE]
        /\ dpc' = "done"
        /\ UNCHANGED conn
     \/ /\ conn' = [conn EXCEPT !.raising = TRUE]
        /\ dpc' = "exit"
        /\ UNCHANGED dret
  /\ UNCHANGED <<dcalls, dfn, dsql, tableRows, openConns, poolHeld, ingestVars,
                 sanVars, agentVars, chatVars, harnessVars, schemaVars>>

\* lines 153-155: cur.execute(sql), then return [] when there is no description
ExecuteSql ==
  /\ dfn = "run_readonly_sql"
  /\ dpc = "execute"
  /\ dlog' = Append(dlog, "sql")
  /\ \/ /\ dpc' = "fetch"
        /\ UNCHANGED <<conn, dret>>
     \/ /\ dret' = [dret EXCEPT !.rows = 0, !.early = TRUE]
        /\ dpc' = "exit"
        /\ UNCHANGED conn
     \/ /\ conn' = [conn EXCEPT !.raising = TRUE]
        /\ dpc' = "exit"
        /\ UNCHANGED dret
  /\ UNCHANGED <<dcalls, dfn, dsql, tableRows, openConns, poolHeld, ingestVars,
                 sanVars, agentVars, chatVars, harnessVars, schemaVars>>

\* lines 156-157: rows = [... for r in cur.fetchall()]
Fetch ==
  /\ dfn = "run_readonly_sql"
  /\ dpc = "fetch"
  /\ \/ /\ dret' = [dret EXCEPT !.rows = fetchall(dsql, tableRows)]
        /\ dpc' = "commit"
        /\ UNCHANGED conn
     \/ /\ conn' = [conn EXCEPT !.raising = TRUE]
        /\ dpc' = "exit"
        /\ UNCHANGED dret
  /\ UNCHANGED <<dcalls, dfn, dsql, tableRows, dlog, openConns, poolHeld, ingestVars,
                 sanVars, agentVars, chatVars, harnessVars, schemaVars>>

\* line 158: cur.execute("COMMIT;")
Commit ==
  /\ dfn = "run_readonly_sql"
  /\ dpc = "commit"
  /\ dlog' = Append(dlog, CommitStmt)
  /\ \/ conn' = [conn EXCEPT !.txn = "committed"]
     \/ conn' = [conn EXCEPT !.raising = TRUE]
  /\ dpc' = "exit"
  /\ UNCHANGED <<dcalls, dfn, dsql, tableRows, openConns, poolHeld, dret, ingestVars,
                 sanVars, agentVars, chatVars, harnessVars, schemaVars>>

\* get_schema_snapshot lines 33-84: the introspection statements
SnapshotStatements ==
  /\ dfn = "get_schema_snapshot"
  /\ dpc = "statements"
  /\ dlog' = Append(dlog, "introspection")
  /\ \/ conn' = [conn EXCEPT !.txn = "open"]
     \/ conn' = [conn EXCEPT !.txn = "open", !.raising = TRUE]
  /\ dpc' = "exit"
  /\ UNCHANGED <<dcalls, dfn, dsql, tableRows, openConns, poolHeld, dret, ingestVars,
                 sanVars, agentVars, chatVars, harnessVars, schemaVars>>

\* the end of "with psycopg2.connect(...) as conn" (lines 31-84 and 148-159):
\* the transaction is committed, or rolled back when an exception leaves the
\* block; the connection is not closed. After a return the connection object
\* has no reference left and is finalized at once or later; after an
\* exception the traceback still refers to it.
ConnExit ==
  /\ dfn \in WithFns
  /\ dpc = "exit"
  /\ dpc' = "done"
  /\ dret' = IF conn.raising
               THEN [kind |-> "raised", rows |-> 0, early |-> FALSE]
               ELSE [dret EXCEPT !.kind = "returned"]
  /\ \E finalized \in IF conn.raising THEN {FALSE} ELSE BOOLEAN :
        /\ conn' = [conn EXCEPT
                      !.txn = IF conn.txn = "open"
                                THEN IF conn.raising THEN "rolledback" ELSE "committed"
                                ELSE conn.txn,
                      !.open = ~finalized]
        /\ openConns' = IF finalized THEN openConns - 1 ELSE openConns
  /\ UNCHANGED <<dcalls, dfn, dsql, tableRows, dlog, poolHeld, ingestVars, sanVars,
                 agentVars, chatVars, harnessVars, schemaVars>>

\* fetch_live_schema lines 74-96: execute, fetchall, cur.close(), conn.close()
\* on the way through; the except clause logs and raises again
LiveSchemaQuery ==
  /\ dfn = "fetch_live_schema"
  /\ dpc = "query"
  /\ dlog' = Append(dlog, "information_schema.columns")
  /\ \/ /\ conn' = [conn EXCEPT !.txn = "rolledback", !.open = FALSE]
        /\ openConns' = openConns - 1
        /\ dret' = [kind |-> "returned", rows |-> 0, early |-> FALSE]
     \/ /\ conn' = [conn EXCEPT !.txn = "open", !.raising = TRUE]
        /\ dret' = [kind |-> "raised", rows |-> 0, early |-> FALSE]
        /\ UNCHANGED openConns
  /\ dpc' = "done"
  /\ UNCHANGED <<dcalls, dfn, dsql, tableRows, poolHeld, ingestVars, sanVars,
                 agentVars, chatVars, harnessVars, schemaVars>>

\* database.py line 39: async with self.pool.acquire() as connection
Acquire ==
  /\ dfn = "execute_query"
  /\ dpc = "connect"
  /\ \/ /\ poolHeld' = poolHeld + 1
        /\ dpc' = "pool_fetch"
        /\ UNCHANGED dret
     \/ /\ dret' = [kind |-> "raised", rows |-> 0, early |-> FALSE]
        /\ dpc' = "done"
        /\ UNCHANGED poolHeld
  /\ UNCHANGED <<dcalls, dfn, dsql, tableRows, conn, dlog, openConns, ingestVars,
                 sanVars, agentVars, chatVars, harnessVars, schemaVars>>

\* database.py lines 40-41: connection.fetch; the end of the async with
\* block gives the connection back to the pool on both ways out
PoolFetch ==
  /\ dfn = "execute_query"
  /\ dpc = "pool_fetch"
  /\ dlog' = Append(dlog, "query")
  /\ \E k \in {"returned", "raised"} :
        dret' = [kind |-> k, rows |-> 0, early |-> FALSE]
  /\ poolHeld' = poolHeld - 1
  /\ dpc' = "done"
  /\ UNCHANGED <<dcalls, dfn, dsql, tableRows, conn, openConns, ingestVars, sanVars,
                 agentVars, chatVars, harnessVars, schemaVars>>

\* the caller has the result (or the exception was handled): the locals of
\* the call are gone
DbReturn ==
  /\ dpc = "done"
  /\ dfn' = "none"
  /\ dpc' = "idle"
  /\ dsql' = << >>
  /\ tableRows' = 0
  /\ conn' = NoConn
  /\ dlog' = << >>
  /\ dret' = NoDbReturn
  /\ UNCHANGED <<dcalls, openConns, poolHeld, ingestVars, sanVars, agentVars, chatVars,
                 harnessVars, schemaVars>>

\* a connection object nobody refers to is finalized, which closes it
Collect ==
  /\ openConns > (IF conn.open THEN 1 ELSE 0)
  /\ openConns' = openConns - 1
  /\ UNCHANGED <<dcalls, dfn, dpc, dsql, tableRows, conn, dlog, poolHeld, dret,
                 ingestVars, sanVars, agentVars, chatVars, harnessVars, schemaVars>>

InitDb == SanOff /\ AgentInit /\ ChatInit /\ HarnessInit("database") /\ SchemaInit /\ IoInit

NextDb ==
  \/ \E fn \in DbFns : DbCall(fn)
  \/ Connect
  \/ SetTimeout
  \/ StartReadOnly
  \/ ExecuteSql
  \/ Fetch
  \/ Commit
  \/ SnapshotStatements
  \/ ConnExit
  \/ LiveSchemaQuery
  \/ Acquire
  \/ PoolFetch
  \/ DbReturn
  \/ Collect

SpecDb == InitDb /\ [][NextDb]_vars

\* ------------------------------------------------------------------------
\* Ingestion: text_chunk_generator.insert_chunks
\* ------------------------------------------------------------------------
\* a chunk as insert_chunks reads it: chunk["text"] and chunk["metadata"]["source"]
Chunks ==
  { [text |-> "a", source |-> "s1"],
    [text |-> "a", source |-> "s2"],
    [text |-> "b", source |-> "s1"] }

Batches == UNION { [1..n -> Chunks] : n \in 0..MaxBatch }

\* line 15: the table name the module ships with is not an allowed one
TargetTables == ALLOWED_TABLES \cup {"CHOOSE_A_TABLE"}

IngestRaised(e) == [kind |-> "raised", error |-> e]

\* the rows a cursor of the running call sees: the committed rows of the
\* table and the rows its own transaction inserted
Cursor == [committed |-> store[itable], own |-> pending]

\* the check looks at committed rows only
chunk_exists_committed_only(cur, text, source) ==
  \E i \in DOMAIN cur.committed :
     cur.committed[i].text = text /\ cur.committed[i].source = source

\* lines 29-36: SELECT 1 ... WHERE chunk_text = %s AND metadata->>'source' = %s
chunk_exists(cur, text, source) ==
  LET visible == cur.committed \o cur.own
  IN  \E i \in DOMAIN visible :
         visible[i].text = text /\ visible[i].source = source

\* lines 221-230: the call, the table check and psycopg2.connect
InsertCall(batch, table) ==
  /\ ipc = "idle"
  /\ icalls < MaxIngestCalls
  /\ icalls' = icalls + 1
  /\ ibatch' = batch
  /\ itable' = table
  /\ inserted' = 0
  /\ skipped' = 0
  /\ embedded' = << >>
  /\ pending' = << >>
  /\ IF table \notin ALLOWED_TABLES
       THEN /\ iret' = IngestRaised("Invalid table name")
            /\ ipc' = "done"
            /\ ipos' = 0
       ELSE \/ /\ ipc' = "loop"
               /\ ipos' = 1
               /\ iret' = NoIngestReturn
            \/ /\ iret' = IngestRaised("connect failed")
               /\ ipc' = "done"
               /\ ipos' = 0
  /\ UNCHANGED <<store, connVars, sanVars, agentVars, chatVars, harnessVars, schemaVars>>

\* lines 232-245: one round of the loop. An exception leaves the with block,
\* which rolls the transaction back.
InsertChunk ==
  /\ ipc = "loop"
  /\ ipos <= Len(ibatch)
  /\ LET chunk == ibatch[ipos]
         rollback(e) == /\ pending' = << >>
                        /\ iret' = IngestRaised(e)
                        /\ ipc' = "done"
                        /\ UNCHANGED <<ipos, inserted, skipped>>
     IN \/ /\ rollback("query failed")
           /\ UNCHANGED embedded
        \/ /\ chunk_exists(Cursor, chunk.text, chunk.source)
           /\ skipped' = skipped + 1
           /\ ipos' = ipos + 1
           /\ UNCHANGED <<pending, embedded, inserted, iret, ipc>>
        \/ /\ ~chunk_exists(Cursor, chunk.text, chunk.source)
           /\ embedded' = Append(embedded, chunk.text)
           /\ \/ rollback("embedding failed")
              \/ rollback("insert failed")
              \/ /\ pending' = Append(pending, chunk)
                 /\ inserted' = inserted + 1
                 /\ ipos' = ipos + 1
                 /\ UNCHANGED <<skipped, iret, ipc>>
  /\ UNCHANGED <<icalls, ibatch, itable, store, connVars, sanVars, agentVars, chatVars,
                 harnessVars, schemaVars>>

\* lines 247-250: conn.commit() after the loop
InsertCommit ==
  /\ ipc = "loop"
  /\ ipos > Len(ibatch)
  /\ \/ /\ store' = [store EXCEPT ![itable] = @ \o pending]
        /\ iret' = [kind |-> "returned", error |-> ""]
     \/ /\ iret' = IngestRaised("commit failed")
        /\ UNCHANGED store
  /\ pending' = << >>
  /\ ipc' = "done"
  /\ UNCHANGED <<icalls, ibatch, itable, ipos, embedded, inserted, skipped, connVars,
                 sanVars, agentVars, chatVars, harnessVars, schemaVars>>

\* the call is over: its locals are gone
IngestDone ==
  /\ ipc = "done"
  /\ ipc' = "idle"
  /\ ibatch' = << >>
  /\ itable' = ""
  /\ ipos' = 0
  /\ embedded' = << >>
  /\ inserted' = 0
  /\ skipped' = 0
  /\ iret' = NoIngestReturn
  /\ UNCHANGED <<icalls, pending, store, connVars, sanVars, agentVars, chatVars,
                 harnessVars, schemaVars>>

InitIngest == SanOff /\ AgentInit /\ ChatInit /\ HarnessInit("insert_chunks") /\ SchemaInit /\ IoInit

NextIngest ==
  \/ \E batch \in Batches : \E table \in TargetTables : InsertCall(batch, table)
  \/ InsertChunk
  \/ InsertCommit
  \/ IngestDone

SpecIngest == InitIngest /\ [][NextIngest]_vars

\* ------------------------------------------------------------------------
\* Vocabulary of the properties: statements, keywords and row caps as a
\* reader of the query text sees them (words are maximal runs of word
\* characters)
\* ------------------------------------------------------------------------
IsWord(s, a, b) ==
  /\ 1 <= a /\ a <= b /\ b <= Len(s)
  /\ \A j \in a..b : IsWordChar(s[j])
  /\ (a = 1 \/ ~IsWordChar(s[a-1]))
  /\ (b = Len(s) \/ ~IsWordChar(s[b+1]))

WordIs(s, a, b, w) == IsWord(s, a, b) /\ UpperStr(SubSeq(s, a, b)) = w

ContainsMutatingKeyword(s) ==
  \E a \in 1..Len(s) : \E k \in 1..Len(BadKeywords) :
     WordIs(s, a, a + Len(BadKeywords[k]) - 1, BadKeywords[k])

\* the first word of the text, after leading whitespace only, is SELECT
BeginsWithSelect(s) ==
  \E a \in 1..Len(s) :
     /\ \A j \in 1..(a - 1) : IsSpace(s[j])
     /\ WordIs(s, a, a + Len(K_SELECT) - 1, K_SELECT)

\* position of the final trailing terminator (0 if the text has none)
FinalTerminator(s) ==
  IF \E i \in 1..Len(s) : s[i] = ";" /\ \A j \in (i + 1)..Len(s) : IsSpace(s[j])
  THEN CHOOSE i \in 1..Len(s) : s[i] = ";" /\ \A j \in (i + 1)..Len(s) : IsSpace(s[j])
  ELSE 0

\* a separator before the final terminator: two or more statements
HasInternalSeparator(s) == \E i \in 1..Len(s) : s[i] = ";" /\ i # FinalTerminator(s)

\* position i lies in a line comment (after -- on the same line)
InLineComment(s, i) ==
  \E c \in 1..(i - 2) :
     /\ s[c] = "-" /\ s[c+1] = "-"
     /\ \A j \in c..i : s[j] # "\n"

\* a word LIMIT followed by whitespace and a number, starting at a
RowCapAt(s, a) ==
  /\ WordIs(s, a, a + Len(K_LIMIT) - 1, K_LIMIT)
  /\ \E d \in (a + Len(K_LIMIT) + 1)..Len(s) : \E e \in d..Len(s) :
        /\ \A j \in (a + Len(K_LIMIT))..(d - 1) : IsSpace(s[j])
        /\ IsWord(s, d, e)
        /\ \A j \in d..e : IsDigit(s[j])

HasExplicitCap(s) == \E a \in 1..Len(s) : RowCapAt(s, a)

\* a row cap that is part of the statement, not of a comment
HasEffectiveCap(s) == \E a \in 1..Len(s) : RowCapAt(s, a) /\ ~InLineComment(s, a)

\* the text without its final terminator, when that is its last character
WithoutTerminator(s) ==
  IF Len(s) > 0 /\ s[Len(s)] = ";" THEN SubSeq(s, 1, Len(s) - 1) ELSE s

EndsWith(s, w) == Len(s) >= Len(w) /\ SubSeq(s, Len(s) - Len(w) + 1, Len(s)) = w

\* ------------------------------------------------------------------------
\* Properties of sanitize_sql (SpecSanitize)
\* ------------------------------------------------------------------------
\* C1: a candidate that contains one of the mutating keywords, as a word in
\* any letter case and anywhere in the text, is rejected and no query is
\* returned.
C1_MutatingKeywordRejected ==
  (sanPc = "done" /\ ContainsMutatingKeyword(cand)) => (~san.ok /\ san.text = << >>)

\* a text that begins with SELECT and carries a mutating keyword not spelled
\* in upper case was rejected as unsafe
C1_Witness ==
  /\ sanPc = "done"
  /\ BeginsWithSelect(cand)
  /\ ContainsMutatingKeyword(cand)
  /\ ~bad_search_case_sensitive(cand)
  /\ san.err = ErrUnsafe

\* C2: every text sanitize_sql returns has no second statement (no ';'
\* other than one final terminator), no mutating keyword and an explicit row
\* cap that is part of the statement, also after the LIMIT repair.
C2_ValidatedQueryInvariant ==
  (sanPc = "done" /\ san.ok) =>
     /\ ~HasInternalSeparator(san.text)
     /\ ~ContainsMutatingKeyword(san.text)
     /\ HasEffectiveCap(san.text)

\* C4: a candidate with a ';' before its final trailing terminator is
\* rejected.
C4_MultipleStatementsRejected ==
  (sanPc = "done" /\ HasInternalSeparator(cand)) => (~san.ok /\ san.text = << >>)

\* a SELECT without mutating keyword was rejected for its second statement
C4_Witness ==
  /\ sanPc = "done"
  /\ HasInternalSeparator(cand)
  /\ BeginsWithSelect(cand)
  /\ ~ContainsMutatingKeyword(cand)
  /\ san.err = ErrMultiple

\* C5: a candidate that passes the other checks is not rejected; without an
\* explicit row cap the result is its text (the final terminator aside)
\* followed by the default cap LIMIT 200, with an explicit cap the result
\* is the input itself.
C5_LimitRepairOnly ==
  (sanPc = "done" /\ BeginsWithSelect(cand) /\ ~ContainsMutatingKeyword(cand)
                  /\ ~HasInternalSeparator(cand)) =>
     /\ san.ok
     /\ HasExplicitCap(cand) => san.text = cand
     /\ ~HasExplicitCap(cand) => san.text = WithoutTerminator(cand) \o LimitSuffix

\* a candidate ending in its terminator and lacking a cap was repaired
C5_Witness ==
  /\ sanPc = "done"
  /\ san.ok
  /\ ~HasExplicitCap(cand)
  /\ EndsWith(cand, <<";">>)
  /\ EndsWith(san.text, LimitSuffix)

\* C6: a candidate whose text does not begin, after leading whitespace,
\* with the word SELECT is rejected.
C6_NonSelectRejected ==
  (sanPc = "done" /\ ~BeginsWithSelect(cand)) => (~san.ok /\ san.text = << >>)

\* a text with SELECT later in it, and no mutating keyword, was rejected
C6_Witness ==
  /\ sanPc = "done"
  /\ ~BeginsWithSelect(cand)
  /\ ~ContainsMutatingKeyword(cand)
  /\ select_match_unanchored(cand)
  /\ san.err = ErrNotSelect

\* ------------------------------------------------------------------------
\* Properties of answer_question (SpecAgent)
\* ------------------------------------------------------------------------
\* C3: every text passed to run_readonly_sql is what sanitize_sql returned
\* for the candidate of that attempt, which it accepted; a rejected
\* candidate is never executed, on the primary attempt or on the retry.
C3_OnlyValidatedExecuted ==
  \A i \in 1..Len(executed) :
     /\ sanitize_sql(executed[i].candidate).ok
     /\ executed[i].text = sanitize_sql(executed[i].candidate).text

\* both attempts reached the database, the retry with a repaired candidate
C3_Witness ==
  /\ Len(executed) = 2
  /\ retries = 1
  /\ executed[2].text # executed[2].candidate

\* C7: a call retries at most once; after the primary execution or
\* composition failed there is one retry, carrying that error text, and a
\* failure of the retry ends the call without a further retry.
C7_AtMostOneRetry ==
  /\ retries <= 1
  /\ retries = 1 => (failedAt \in {"execute", "compose"} /\ feedback = err /\ err # "")
  /\ (failedAt \in {"execute", "compose"} /\ pc # "retry_synth") => retries = 1
  /\ retryFailedAt # "" => (retries = 1 /\ pc \in {"done", "idle"})

\* the retry itself failed at the database and the call ended
C7_Witness ==
  /\ failedAt = "execute"
  /\ retryFailedAt = "execute"
  /\ retries = 1
  /\ pc = "done"

\* C8: a failure at any stage of the primary attempt (schema snapshot,
\* synthesis, validation, execution, composition) leads to the single
\* retry, with the error message as feedback.
C8_AnyPrimaryFailureRetries ==
  failedAt # "" => (pc = "retry_synth" \/ (retries = 1 /\ feedback = err /\ err # ""))

\* C9: answer_question never raises to its caller.
C9_NeverRaises == outcome.kind # "raised"

\* ------------------------------------------------------------------------
\* Properties of RAGServiceV2.chat (SpecChat)
\* ------------------------------------------------------------------------
\* C10: chat never raises; when the primary path and the fallback both
\* failed, the result is the fixed apology with system_used = "error" and
\* no sources.
C10_ChatNeverRaisesApology ==
  \A r \in Reqs :
     /\ cres[r].kind # "raised"
     /\ (cpc[r] = "done" /\ primaryErr[r] # "" /\ fallbackFailed[r]) =>
           /\ cres[r].kind = "returned"
           /\ cres[r].answer = Apology
           /\ cres[r].system_used = "error"
           /\ cres[r].sources = "empty"

\* C11: the fallback is entered only after the primary path failed; a
\* result is tagged legacy only when the fallback succeeded, and a request
\* whose fallback failed (initialization, retrieval or model call) ends
\* with system_used = "error", never with a legacy-tagged result.
C11_FallbackFailureIsTerminalError ==
  \A r \in Reqs :
     /\ cpc[r] \in {"get_legacy", "legacy_init", "fallback"} => primaryErr[r] # ""
     /\ cpc[r] = "done" =>
           /\ cres[r].system_used = "legacy" => (primaryErr[r] # "" /\ ~fallbackFailed[r])
           /\ fallbackFailed[r] => cres[r].system_used = "error"

\* C12: every finished chat request records which system produced the
\* answer (v2, legacy or error) and, when that is not v2, the reason; the
\* record is in the result of chat and in the response the endpoint builds
\* from it.
C12_OutcomeRecordsSystemAndReason ==
  \A r \in Reqs :
     /\ cpc[r] \in {"done", "responded"} =>
           /\ cres[r].system_used \in {"v2", "legacy", "error"}
           /\ cres[r].system_used # "v2" =>
                 (cres[r].fallback_reason # "" \/ cres[r].error # "")
     /\ cpc[r] = "responded" =>
           /\ response[r].system_used = cres[r].system_used
           /\ response[r].system_used # "v2" => response[r].fallback_reason # "None"

\* the answers a caller may see: a grounded answer, the no-data message or
\* a fixed apology
UserVisibleAnswers ==
  {"answer", "v2 answer", "legacy answer", NoDataMsg, Apology, LegacyApology,
   LegacyTrouble}

\* C13: what answer_question, chat and the endpoint return is a grounded
\* answer, the fixed no-data message or a fixed apology, and carries no
\* exception message and, after a rejection, no generated SQL text.
C13_NoInternalDetailReturned ==
  /\ outcome.kind = "text" =>
        /\ outcome.answer \in UserVisibleAnswers
        /\ outcome.detail = ""
        /\ outcome.sql = << >>
  /\ \A r \in Reqs :
        /\ cpc[r] \in {"done", "responded"} =>
              /\ cres[r].answer \in UserVisibleAnswers
              /\ cres[r].fallback_reason = ""
              /\ cres[r].error = ""
        /\ cpc[r] = "responded" =>
              /\ response[r].response \in UserVisibleAnswers
              /\ response[r].fallback_reason = "None"

\* C14: a failure of the database while a query runs always leads to the
\* retry or the fallback: answer_question retries after an execution error,
\* and no v2-tagged result of chat is built on a select that failed.
C14_DatabaseFailureTriggersRetryOrFallback ==
  /\ failedAt = "execute" => (pc = "retry_synth" \/ retries = 1)
  /\ \A r \in Reqs :
        (queries.req = r /\ cpc[r] \in {"done", "responded"}
           /\ cres[r].system_used = "v2") => queries.failed = {}

\* ------------------------------------------------------------------------
\* Properties of the composers and of the conversation history
\* ------------------------------------------------------------------------
\* the conversation history of the module whose entry point is driven
History == IF entry \in {"rag_answer", "final_rag.rag_answer"} THEN rag_history
                                                             ELSE conversation_history

\* the current question was stored as the newest turn
Appended == History # << >> /\ History[Len(History)][1] = question

\* the history as it was when the current call began
HistoryBefore == IF Appended THEN SubSeq(History, 1, Len(History) - 1) ELSE History

\* the fixed message and the result shape of a normal answer of each composer
FixedMessage == IF entry = "llm_answer" THEN NoDataMsg ELSE NoInfoMsg

NormalShape == IF entry = "llm_answer" THEN "str" ELSE "dict"

\* C15: on empty evidence (no rows, no chunks) a composer returns its fixed
\* no-data message without invoking the model and without appending to the
\* history, in the result shape of a normal answer; for llm_answer and for
\* both rag_answer variants.
C15_EmptyEvidenceShortCircuit ==
  (entry \in Composers /\ evidence = "empty") =>
     /\ cret.kind = "returned"
     /\ cret.answer = FixedMessage
     /\ ~invoked
     /\ ~Appended
     /\ cret.shape = NormalShape

\* C16: the prompt a composer builds holds exactly the most recent turns of
\* the history, at most 5, in their chronological order; with more than 5
\* turns stored, none older than the last 5 is in it.
C16_PromptWindowLastFive ==
  (entry \in Composers /\ invoked) =>
     LET before == HistoryBefore
         k == Len(prompt)
     IN /\ k <= 5
        /\ k = (IF Len(before) > 5 THEN 5 ELSE Len(before))
        /\ \A i \in 1..k : prompt[i] = before[Len(before) - k + i]
        /\ \A i \in 1..k : \A j \in 1..k : i < j => prompt[i][1] < prompt[j][1]

\* a prompt built on a history of more than 5 turns
C16_Witness ==
  /\ entry \in {"llm_answer", "final_rag.rag_answer"}
  /\ invoked
  /\ Len(HistoryBefore) > 5
  /\ Len(prompt) = 5

\* C18: the turns in the prompt built for a question of one session were
\* all stored by answer cycles of that same session, whatever the
\* interleaving of the sessions.
C18_WindowOfOwnSession ==
  (entry \in Composers /\ invoked) =>
     \A i \in 1..Len(prompt) : \A j \in 1..Len(History) :
        History[j] = prompt[i] => turnOwner[j] = session

\* the step stores the pair of the current question: the old turns stay as
\* they were and one turn is added behind them
AppendsOneTurn(h, hn) ==
  /\ Len(hn) = Len(h) + 1
  /\ SubSeq(hn, 1, Len(h)) = h
  /\ hn[Len(hn)][1] = question'

\* the step ends with an answer of the language model given to the caller
ModelAnswered(a) ==
  /\ failedAt' = failedAt
  /\ retryFailedAt' = retryFailedAt
  /\ IF entry = "answer_question"
        THEN outcome'.kind = "dict" /\ outcome'.answer = a /\ pc' = "done"
        ELSE invoked' /\ cret'.kind = "returned" /\ cret'.answer = a

\* C17: a conversation history changes only by the append of one
\* (question, answer) pair in a step in which the language model returned
\* that answer; no step in which validation, execution or the model call
\* fails appends, and stored turns are never modified, reordered or deleted.
C17_HistoryAppendOnly ==
  [][ /\ \/ conversation_history' = conversation_history
         \/ /\ AppendsOneTurn(conversation_history, conversation_history')
            /\ ModelAnswered(conversation_history'[Len(conversation_history')][2])
      /\ \/ rag_history' = rag_history
         \/ /\ AppendsOneTurn(rag_history, rag_history')
            /\ ModelAnswered(rag_history'[Len(rag_history')][2]) ]_vars

\* the first call stored its turn; in the second call the query and the
\* query of the retry failed, and the history still holds that one turn
C17_Witness ==
  /\ entry = "answer_question"
  /\ asked = 2
  /\ failedAt = "execute"
  /\ retryFailedAt = "execute"
  /\ conversation_history = << <<1, "answer">> >>

\* ------------------------------------------------------------------------
\* Properties of get_schema_snapshot (SpecSchema)
\* ------------------------------------------------------------------------
\* a snapshot holds the part of every table, all read by one run
CompleteSnapshot(v) ==
  /\ v.present
  /\ Len(v.parts) = Len(DbTables)
  /\ \A i \in 1..Len(v.parts) :
        /\ v.parts[i].table = DbTables[i]
        /\ v.parts[i].run = v.parts[1].run

\* C19: a call without force_refresh that finds a snapshot in the cache
\* returns exactly the cached snapshot and sends no statement to the
\* database; the cache is replaced only by a call that missed or that
\* passed force_refresh.
C19_CacheHitNoIO ==
  [][ /\ \A c \in Callers :
           /\ (spc[c] = "idle" /\ spc'[c] # "idle" /\ schemaCache.present /\ ~sforce'[c]) =>
                 spc'[c] = "hit"
           /\ (spc'[c] = "done" /\ ~sforce'[c] /\ seen'[c].present) =>
                 /\ sret'[c].kind = "returned"
                 /\ CompleteSnapshot(sret'[c].value)
                 /\ dbIO'[c] = 0
           /\ (spc[c] = "hit" /\ spc'[c] = "done") =>
                 /\ sret'[c].value = schemaCache
                 /\ schemaCache' = schemaCache
      /\ schemaCache' # schemaCache =>
           \E c \in Callers :
              /\ spc[c] = "store"
              /\ spc'[c] # "store"
              /\ sforce[c] \/ ~seen[c].present ]_vars

\* a call without force_refresh returned the snapshot that an earlier call
\* had stored
C19_Witness ==
  \E c \in Callers :
     /\ spc[c] = "done"
     /\ ~sforce[c]
     /\ seen[c].present
     /\ sret[c].kind = "returned"
     /\ sret[c].value = schemaCache
     /\ sret[c].value.parts[1].run # srun[c]
     /\ dbIO[c] = 0

\* C20: when the introspection fails at any point (connection, table list,
\* columns, foreign keys or sample rows of any table) the call raises to
\* its caller and the cache keeps its value; the cache never holds a
\* partial snapshot, and after a failed forced refresh the snapshot cached
\* before is still cached.
C20_FailedIntrospectionKeepsCache ==
  [][ /\ \A c \in Callers :
           (sret'[c].kind = "raised" /\ sret[c].kind # "raised") =>
              /\ schemaCache' = schemaCache
              /\ spc'[c] = "done"
              /\ sret'[c].stage \in {"connect", "tables", "columns", "fks", "samples"}
      /\ schemaCache'.present => CompleteSnapshot(schemaCache') ]_vars

\* a forced refresh failed while reading the second table, and the snapshot
\* that was cached when it began is still the cached value
C20_Witness ==
  \E c \in Callers :
     /\ spc[c] = "done"
     /\ sforce[c]
     /\ seen[c].present
     /\ sret[c].kind = "raised"
     /\ sret[c].stage = "samples"
     /\ Len(sparts[c]) = 1
     /\ schemaCache = seen[c]

\* C21: under any interleaving of concurrent get_schema_snapshot calls,
\* with or without force_refresh, every value a call reads from the cache,
\* every value a call returns and the cached value itself is either absent
\* or a complete snapshot whose parts all come from one single
\* introspection run; nobody observes a partially written snapshot.
C21_NoPartialSnapshotObserved ==
  /\ schemaCache.present => CompleteSnapshot(schemaCache)
  /\ \A c \in Callers :
        /\ seen[c].present => CompleteSnapshot(seen[c])
        /\ sret[c].kind = "returned" => CompleteSnapshot(sret[c].value)

\* two introspection runs overlapped: a call that stored its own snapshot
\* returned the snapshot that the other, still running call stored after it
C21_Witness ==
  \E c, o \in Callers :
     /\ c # o
     /\ spc[c] = "done"
     /\ spc[o] = "stored"
     /\ sret[c].kind = "returned"
     /\ srun[c] # srun[o]
     /\ Len(sparts[c]) = Len(DbTables)
     /\ sret[c].value.parts[1].run = srun[o]
     /\ sret[c].value = JoinParts(sparts[o])

\* C22: every database connection acquired for a query is released on all
\* exit paths, also when the query raises: when run_readonly_sql,
\* get_schema_snapshot, fetch_live_schema or Database.execute_query has
\* returned or raised, the connection it opened is closed and no pool
\* connection is held.
C22_ConnectionReleasedOnEveryExit ==
  dpc = "done" => (~conn.open /\ poolHeld = 0)

\* C23: in every execution of run_readonly_sql the statement timeout and the
\* read-only mode are both set before the validated statement is executed,
\* and when the call is over (normal return, early return without a result
\* description, or an error) its transaction is committed or rolled back.
C23_ReadOnlyTimeoutThenTransactionEnded ==
  dfn = "run_readonly_sql" =>
    /\ \A i \in DOMAIN dlog :
          dlog[i] = "sql" =>
             /\ \E j \in 1..(i - 1) : dlog[j] = SetTimeoutStmt
             /\ \E j \in 1..(i - 1) : dlog[j] = StartReadOnlyStmt
             /\ conn.timeout
             /\ conn.readonly
    /\ dpc = "done" =>
          /\ conn.txn # "open"
          /\ dlog # << >> => conn.txn \in {"committed", "rolledback"}

\* the statement had no result description: the call returned [] before its
\* own COMMIT, and the end of the with block committed the transaction
C23_Witness ==
  /\ dfn = "run_readonly_sql"
  /\ dpc = "done"
  /\ dret.kind = "returned"
  /\ dret.early
  /\ dlog = <<SetTimeoutStmt, StartReadOnlyStmt, "sql">>
  /\ conn.txn = "committed"

\* C24: the length of every result of run_readonly_sql is bounded by a hard
\* cap of the execution layer (the default cap of 200 rows) whatever LIMIT
\* the validated statement carries.
C24_ResultSetWithinCap ==
  (dfn = "run_readonly_sql" /\ dret.kind = "returned") => dret.rows <= DefaultLimit

\* number of rows of a table that carry the key (text, source) of a chunk
StoredCount(rws, chunk) ==
  Cardinality({ i \in DOMAIN rws :
                  rws[i].text = chunk.text /\ rws[i].source = chunk.source })

\* C25: ingestion is idempotent on the key (chunk text, source tag): after
\* any sequence of insert_chunks calls a table never holds two chunks with
\* the same (text, source); after a call that returned, every chunk of its
\* batch is stored exactly once, also when the batch lists it twice; and
\* the round of a chunk that is already stored (or already inserted by the
\* same call) changes no row and computes no embedding.
C25_IngestionIdempotent ==
  [][ /\ \A t \in ALLOWED_TABLES : \A k \in Chunks : StoredCount(store'[t], k) <= 1
      /\ (ipc' = "done" /\ iret'.kind = "returned") =>
            \A i \in DOMAIN ibatch' : StoredCount(store'[itable'], ibatch'[i]) = 1
      /\ ( /\ ipc = "loop"
           /\ ipos <= Len(ibatch)
           /\ StoredCount(store[itable] \o pending, ibatch[ipos]) > 0 ) =>
            /\ embedded' = embedded
            /\ store' = store
            /\ inserted' = inserted
            /\ ipc' = "loop" => (pending' = pending /\ skipped' = skipped + 1) ]_vars

\* a second call whose batch lists twice a chunk the first call stored:
\* both are skipped, no embedding is computed, the table holds it once
C25_Witness ==
  /\ icalls = 2
  /\ ipc = "done"
  /\ iret.kind = "returned"
  /\ Len(ibatch) = 2
  /\ ibatch[1] = ibatch[2]
  /\ skipped = 2
  /\ inserted = 0
  /\ embedded = << >>
  /\ StoredCount(store[itable], ibatch[1]) = 1

\* the text still carries a code fence
HasFence(s) == \E i \in 1..Len(s) : MatchAt(s, i, Fence)

\* C26: every candidate handed to the validator, on the primary synthesis
\* and on the retry synthesis alike, has its code-fence wrapping stripped,
\* so a fenced valid SELECT is treated the same on both attempts.
C26_CandidateFencesStripped ==
  pc \in {"validate", "retry_validate"} => ~HasFence(sql)

\* C27: under any interleaving of concurrent chat calls that reach the
\* fallback, whenever _legacy_initialized is true legacy_rag_service is not
\* None, so a fallback that was initialized is never found unavailable; and
\* a failed initialization leaves the flag false.
C27_InitializedFallbackIsAvailable ==
  /\ legacy_initialized => legacy_rag_service # "None"
  /\ \A r \in Reqs :
        (cpc[r] = "fallback" /\ legacy_initialized) => svc[r] # "None"

\* number of stored turns that carry question q
TurnsOf(q) ==
  Cardinality({ i \in DOMAIN conversation_history : conversation_history[i][1] = q })

\* C28: each answer_question call appends at most one pair to
\* conversation_history whichever path it takes; a call that ended with an
\* answer of the model stored its question exactly once, also when the
\* primary attempt failed and the retry succeeded.
C28_OneTurnPerCall ==
  /\ \A q \in 1..MaxCalls : TurnsOf(q) <= 1
  /\ Len(conversation_history) <= asked
  /\ (pc = "done" /\ outcome.kind = "dict" /\ outcome.answer = "answer") =>
        TurnsOf(question) = 1

\* the model call of the primary attempt failed, the retry succeeded, and
\* the question is stored once
C28_Witness ==
  /\ pc = "done"
  /\ failedAt = "compose"
  /\ retries = 1
  /\ retryFailedAt = ""
  /\ outcome.kind = "dict"
  /\ outcome.answer = "answer"
  /\ TurnsOf(question) = 1

\* C29: sanitize_sql is idempotent on the inputs it accepts: applied to its
\* own output it succeeds and returns that output unchanged (no rejection,
\* no second LIMIT).
C29_SanitizeIdempotent ==
  (sanPc = "done" /\ san.ok) =>
     /\ sanitize_sql(san.text).ok
     /\ sanitize_sql(san.text).text = san.text

\* C30: for every plan, every table a select is sent to is in
\* included_tables and every selected field is a column the live schema
\* declares for that table; a planned table outside the allow-list is
\* skipped (no select, no entry in all_data) and the request goes on; a
\* table none of whose requested fields is a declared column is not
\* queried and contributes an empty row list.
C30_SelectsWithinAllowListAndSchema ==
  queries.req # 0 =>
    /\ \A q \in queries.selected :
          /\ q[1] \in included_tables
          /\ q[2] # << >>
          /\ \A i \in DOMAIN q[2] : q[2][i] \in LiveSchema[q[1]]
    /\ \A i \in DOMAIN queries.plan.target_tables :
          LET t == queries.plan.target_tables[i]
              requested == Range(queries.plan.suggested_fields)
          IN  /\ t \notin included_tables =>
                    /\ t \notin DOMAIN queries.all_data
                    /\ \A q \in queries.selected : q[1] # t
              /\ (t \in included_tables /\ requested \cap LiveSchema[t] = {}) =>
                    /\ \A q \in queries.selected : q[1] # t
                    /\ queries.all_data[t] = "[]"
    /\ primaryErr[queries.req] \in {"", "final answer failed"}

\* the plan named users (not allowed) and grades with the fields password
\* and COUNT(*): no select was sent, grades contributed an empty list, and
\* the request was answered by the primary path
C30_Witness ==
  /\ queries.req # 0
  /\ queries.plan.target_tables = <<"users", "grades">>
  /\ queries.selected = {}
  /\ DOMAIN queries.all_data = {"grades"}
  /\ queries.all_data["grades"] = "[]"
  /\ cpc[queries.req] = "done"
  /\ cres[queries.req].system_used = "v2"

====
